---- MODULE Spec2Model ----
(***************************************************************************)
(* Kiwi Livescore API: the admission-control rate limiter (rateLimit.ts),  *)
(* the request boundary that calls it (index.ts, main) and the team cache  *)
(* provider (providers/sportsmonk.ts).                                     *)
(*                                                                         *)
(* Time is Date.now(): integer milliseconds.  Token counts are JavaScript  *)
(* numbers; they are kept here as exact integers in units of               *)
(* 1/(1000*interval) token, so that  elapsedMs * limit  is the refill and  *)
(* 1000*interval is one whole token.  The clock advances by multiples of   *)
(* half a token period, for which the double arithmetic of the code is     *)
(* exact (0.5 and 1.0 are representable; larger refills are capped).       *)
(***************************************************************************)
EXTENDS Integers, Sequences, FiniteSets, TLC

VARIABLES
    config,       \* RateLimiter.config
    buckets,      \* RateLimiter.buckets: Map<string, Bucket>, a function on its keys
    lastCleanup,  \* RateLimiter.lastCleanup
    now,          \* Date.now()
    ticks,        \* number of clock advances so far
    reqs,         \* requests being handled by main: their position
    last,         \* the latest check call at the current instant: inputs, prior bucket, decision
    inst,         \* per key: checks and admissions of the current instant
    hist,         \* the limiter's past: constructor argument and time, sweeps
    admitted,     \* per key: the instants of its allowed checks, when these are logged
    shadow,       \* limiters run beside the limiter on the same calls, when these are compared
    env,          \* Env: is SPORTMONKS_API_KEY set, is the TEAMS_CACHE namespace bound
    upstream,     \* the SportsMonk API: the total_pages it reports, when that is fixed
    store,        \* the value of TEAMS_CACHE under CACHE_KEY
    calls,        \* calls of getCachedTeams and refreshCache: position and locals
    sb,           \* a GET /api/scoreboard request handled by main: position and locals
    logo,         \* cricbuzz-teams.ts: the logo cache, its build and the getTeamLogo calls
    fn,           \* the latest call of a helper of types.ts: arguments and result
    fetchStep     \* a fetch step of the cricket providers: position, failure, result

-----------------------------------------------------------------------------
(* Bounds of the model *)

\* clock advances in one behaviour
MaxTicks == 2
\* a limiter whose burst is above this is called for one client key only
TwoKeyBurst == 5
\* pages the upstream serves for one fetch
MaxPages == 2
\* matches in the list given to a helper of types.ts
MaxMatches == 2
\* items of a live-score feed, team anchors of a directory page
MaxItems == 2

-----------------------------------------------------------------------------
(* Strings are sequences of one-character strings *)

UpperAlpha == <<"A","B","C","D","E","F","G","H","I","J","K","L","M",
                "N","O","P","Q","R","S","T","U","V","W","X","Y","Z">>
LowerAlpha == <<"a","b","c","d","e","f","g","h","i","j","k","l","m",
                "n","o","p","q","r","s","t","u","v","w","x","y","z">>

ToLowerChar(c) ==
    IF \E i \in 1..26 : UpperAlpha[i] = c
    THEN LowerAlpha[CHOOSE i \in 1..26 : UpperAlpha[i] = c]
    ELSE c

ToUpperChar(c) ==
    IF \E i \in 1..26 : LowerAlpha[i] = c
    THEN UpperAlpha[CHOOSE i \in 1..26 : LowerAlpha[i] = c]
    ELSE c

\* String.prototype.toLowerCase
ToLowerCase(s) == [i \in 1..Len(s) |-> ToLowerChar(s[i])]

\* String.prototype.toUpperCase
ToUpperCase(s) == [i \in 1..Len(s) |-> ToUpperChar(s[i])]

WhiteSpace == {" ", "\t", "\n"}

RECURSIVE TrimStart(_)
TrimStart(s) ==
    IF s # <<>> /\ Head(s) \in WhiteSpace THEN TrimStart(Tail(s)) ELSE s

RECURSIVE TrimEnd(_)
TrimEnd(s) ==
    IF s # <<>> /\ s[Len(s)] \in WhiteSpace
    THEN TrimEnd(SubSeq(s, 1, Len(s) - 1))
    ELSE s

\* String.prototype.trim
Trim(s) == TrimEnd(TrimStart(s))

\* String.prototype.includes
Includes(s, t) ==
    \E i \in 0..(Len(s) - Len(t)) : SubSeq(s, i + 1, i + Len(t)) = t

\* String.prototype.replace(from, to) with a string pattern: the first occurrence
ReplaceFirst(s, from, to) ==
    IF Includes(s, from)
    THEN LET i == CHOOSE i \in 0..(Len(s) - Len(from)) :
                     /\ SubSeq(s, i + 1, i + Len(from)) = from
                     /\ \A j \in 0..(i - 1) : SubSeq(s, j + 1, j + Len(from)) # from
         IN  SubSeq(s, 1, i) \o to \o SubSeq(s, i + Len(from) + 1, Len(s))
    ELSE s

\* String.prototype.replace(/from/g, to) for a pattern without operators
RECURSIVE ReplaceAll(_, _, _)
ReplaceAll(s, from, to) ==
    IF Len(s) < Len(from) THEN s
    ELSE IF SubSeq(s, 1, Len(from)) = from
    THEN to \o ReplaceAll(SubSeq(s, Len(from) + 1, Len(s)), from, to)
    ELSE <<Head(s)>> \o ReplaceAll(Tail(s), from, to)

\* String.prototype.split(sep) with a string separator
RECURSIVE SplitOn(_, _, _)
SplitOn(s, sep, piece) ==
    IF Len(s) < Len(sep) THEN <<piece \o s>>
    ELSE IF SubSeq(s, 1, Len(sep)) = sep
    THEN <<piece>> \o SplitOn(SubSeq(s, Len(sep) + 1, Len(s)), sep, <<>>)
    ELSE SplitOn(Tail(s), sep, Append(piece, Head(s)))

\* String.prototype.split(/\s+/) of a string without leading or trailing space
RECURSIVE WordsFrom(_, _)
WordsFrom(s, word) ==
    IF s = <<>> THEN <<word>>
    ELSE IF Head(s) \in WhiteSpace THEN <<word>> \o WordsFrom(TrimStart(s), <<>>)
    ELSE WordsFrom(Tail(s), Append(word, Head(s)))

Words(s) == WordsFrom(s, <<>>)

\* String.prototype.startsWith
StartsWith(s, prefix) == Len(s) >= Len(prefix) /\ SubSeq(s, 1, Len(prefix)) = prefix

-----------------------------------------------------------------------------
(* RateLimiter *)

\* the arguments of  new RateLimiter(config) ; 0 stands for an omitted field
ConstructorArgs ==
    { [limit |-> 60, burst |-> 10, interval |-> 60],
      [limit |-> 0,  burst |-> 0,  interval |-> 0],
      [limit |-> 1,  burst |-> 10, interval |-> 60] }

\* constructor:  config.limit || 10, config.burst || 5, config.interval || 60
ConstructAsGlobal(c) ==
    [ limit    |-> IF c.limit = 0 THEN 60 ELSE c.limit,
      burst    |-> IF c.burst = 0 THEN 10 ELSE c.burst,
      interval |-> IF c.interval = 0 THEN 60 ELSE c.interval ]
Construct(c) ==
    [ limit    |-> IF c.limit = 0 THEN 10 ELSE c.limit,
      burst    |-> IF c.burst = 0 THEN 5 ELSE c.burst,
      interval |-> IF c.interval = 0 THEN 60 ELSE c.interval ]

\* the global instance
rateLimiter == Construct([limit |-> 60, burst |-> 10, interval |-> 60])

\* integer units per token: tokens are kept as multiples of 1/(1000*interval)
TokenUnit == 1000 * config.interval

\* the userAgent argument: string | null
UserAgents ==
    { [isNull |-> TRUE,  text |-> <<>>],
      [isNull |-> FALSE, text |-> <<" ", "\t">>],
      [isNull |-> FALSE, text |-> <<"c","u","r","l","/","8">>],
      [isNull |-> FALSE, text |-> <<"x","P","o","s","t","M","a","n">>],
      [isNull |-> FALSE, text |-> <<"M","o","z","i","l","l","a">>] }

blockedAgents ==
    { <<"c","u","r","l">>,
      <<"p","y","t","h","o","n","-","r","e","q","u","e","s","t","s">>,
      <<"p","o","s","t","m","a","n">> }

\* !userAgent || userAgent.trim() === ''
MissingUserAgent(ua) == ua.isNull \/ ua.text = <<>> \/ Trim(ua.text) = <<>>

\* blockedAgents.some(agent => uaLower.includes(agent))
BlockedAgentCaseSensitive(ua) == \E agent \in blockedAgents : Includes(ua.text, agent)
BlockedAgent(ua) ==
    LET uaLower == ToLowerCase(ua.text)
    IN  \E agent \in blockedAgents : Includes(uaLower, agent)

\* { tokens: this.config.burst, lastRefill: now }
NewBucketShort(t) == [tokens |-> (config.burst - 1) * TokenUnit, lastRefill |-> t]
NewBucket(t) == [tokens |-> config.burst * TokenUnit, lastRefill |-> t]

Min(a, b) == IF a <= b THEN a ELSE b

\* lines 64-69: refill by the time passed, capped at burst
RefillUncapped(bucket, t) ==
    [tokens |-> bucket.tokens + (t - bucket.lastRefill) * config.limit, lastRefill |-> t]
RefillSlow(bucket, t) ==
    [tokens |-> Min(config.burst * TokenUnit,
                    bucket.tokens + ((t - bucket.lastRefill) * config.limit) \div 2),
     lastRefill |-> t]
Refill(bucket, t) ==
    LET timePassed     == t - bucket.lastRefill          \* milliseconds
        refilledTokens == timePassed * config.limit      \* in token units
    IN  [tokens     |-> Min(config.burst * TokenUnit, bucket.tokens + refilledTokens),
         lastRefill |-> t]

\* bucket.tokens >= 1
HasToken(bucket) == bucket.tokens >= TokenUnit

\* bucket.tokens -= 1
ConsumeNothing(bucket) == bucket
Consume(bucket) == [bucket EXCEPT !.tokens = @ - TokenUnit]

\* Map.set
MapSet(m, k, v) == [x \in DOMAIN m \cup {k} |-> IF x = k THEN v ELSE m[x]]

\* cleanup(): delete the buckets not used in 5 minutes
cleanupAfterFiveSeconds(bs, t) ==
    LET keep == {ip \in DOMAIN bs : ~(t - bs[ip].lastRefill > 5000)}
    IN  [ip \in keep |-> bs[ip]]
cleanupAfterOneMinute(bs, t) ==
    LET keep == {ip \in DOMAIN bs : ~(t - bs[ip].lastRefill > 60000)}
    IN  [ip \in keep |-> bs[ip]]
cleanup(bs, t) ==
    LET keep == {ip \in DOMAIN bs : ~(t - bs[ip].lastRefill > 300000)}
    IN  [ip \in keep |-> bs[ip]]

\* lines 38-42: the lazy cleanup at the head of check
LazyCleanupUnstamped ==
    IF now - lastCleanup > 60000
    THEN [buckets |-> cleanup(buckets, now), lastCleanup |-> lastCleanup, swept |-> TRUE]
    ELSE [buckets |-> buckets, lastCleanup |-> lastCleanup, swept |-> FALSE]
LazyCleanup ==
    IF now - lastCleanup > 60000
    THEN [buckets |-> cleanup(buckets, now), lastCleanup |-> now, swept |-> TRUE]
    ELSE [buckets |-> buckets, lastCleanup |-> lastCleanup, swept |-> FALSE]

\* the User-Agent rule that rejects each userAgent, lines 44-55
UserAgentRule ==
    [ua \in UserAgents |->
        IF MissingUserAgent(ua) THEN "missing"
        ELSE IF BlockedAgent(ua) THEN "blocked"
        ELSE "pass"]

\* check(ip, userAgent): the limiter's state after the call and its decision
checkChargesRejected(ip, userAgent) ==
    LET c == LazyCleanup
        stored == IF ip \in DOMAIN c.buckets THEN c.buckets[ip] ELSE NewBucket(now)
        bucket == Refill(stored, now)
    IN  IF UserAgentRule[userAgent] # "pass"
        THEN [buckets |-> MapSet(c.buckets, ip, bucket),
              lastCleanup |-> c.lastCleanup, swept |-> c.swept, allowed |-> FALSE,
              reason |-> IF UserAgentRule[userAgent] = "missing"
                         THEN "Missing User-Agent header" ELSE "Automated client blocked"]
        ELSE IF HasToken(bucket)
        THEN [buckets |-> MapSet(c.buckets, ip, Consume(bucket)),
              lastCleanup |-> c.lastCleanup, swept |-> c.swept,
              allowed |-> TRUE, reason |-> "none"]
        ELSE [buckets |-> MapSet(c.buckets, ip, bucket),
              lastCleanup |-> c.lastCleanup, swept |-> c.swept,
              allowed |-> FALSE, reason |-> "Rate limit exceeded"]
checkNoReason(ip, userAgent) ==
    LET c == LazyCleanup
    IN  IF UserAgentRule[userAgent] = "missing"
        THEN [buckets |-> c.buckets, lastCleanup |-> c.lastCleanup, swept |-> c.swept,
              allowed |-> FALSE, reason |-> "Missing User-Agent header"]
        ELSE IF UserAgentRule[userAgent] = "blocked"
        THEN [buckets |-> c.buckets, lastCleanup |-> c.lastCleanup, swept |-> c.swept,
              allowed |-> FALSE, reason |-> "Automated client blocked"]
        ELSE
            LET stored == IF ip \in DOMAIN c.buckets THEN c.buckets[ip] ELSE NewBucket(now)
                bucket == Refill(stored, now)
            IN  IF HasToken(bucket)
                THEN [buckets |-> MapSet(c.buckets, ip, Consume(bucket)),
                      lastCleanup |-> c.lastCleanup, swept |-> c.swept,
                      allowed |-> TRUE, reason |-> "none"]
                ELSE [buckets |-> MapSet(c.buckets, ip, bucket),
                      lastCleanup |-> c.lastCleanup, swept |-> c.swept,
                      allowed |-> FALSE, reason |-> "none"]
check(ip, userAgent) ==
    LET c == LazyCleanup
    IN  IF UserAgentRule[userAgent] = "missing"
        THEN [buckets |-> c.buckets, lastCleanup |-> c.lastCleanup, swept |-> c.swept,
              allowed |-> FALSE, reason |-> "Missing User-Agent header"]
        ELSE IF UserAgentRule[userAgent] = "blocked"
        THEN [buckets |-> c.buckets, lastCleanup |-> c.lastCleanup, swept |-> c.swept,
              allowed |-> FALSE, reason |-> "Automated client blocked"]
        ELSE
            LET stored == IF ip \in DOMAIN c.buckets THEN c.buckets[ip] ELSE NewBucket(now)
                bucket == Refill(stored, now)
            IN  IF HasToken(bucket)
                THEN [buckets |-> MapSet(c.buckets, ip, Consume(bucket)),
                      lastCleanup |-> c.lastCleanup, swept |-> c.swept,
                      allowed |-> TRUE, reason |-> "none"]
                ELSE [buckets |-> MapSet(c.buckets, ip, bucket),
                      lastCleanup |-> c.lastCleanup, swept |-> c.swept,
                      allowed |-> FALSE, reason |-> "Rate limit exceeded"]

-----------------------------------------------------------------------------
(* providers/sportsmonk.ts: the team cache *)

CACHE_TTL_DAYS == 7
CACHE_TTL_MS == CACHE_TTL_DAYS * 24 * 60 * 60 * 1000

\* raw teams the upstream serves (SportsMonkTeam)
India ==
    [id |-> 1, name |-> <<"I","n","d","i","a">>, code |-> <<"I","N","D">>,
     image_path |-> "in.png", national_team |-> TRUE]
Australia ==
    [id |-> 2, name |-> <<"A","u","s","t","r","a","l","i","a">>, code |-> <<>>,
     image_path |-> "au.png", national_team |-> TRUE]
Mumbai ==
    [id |-> 3, name |-> <<"M","u","m","b","a","i">>, code |-> <<"M","I">>,
     image_path |-> "mi.png", national_team |-> FALSE]

\* Number.prototype.toString for the ids in use
Digits == <<"0","1","2","3","4","5","6","7","8","9">>
RECURSIVE NumberToString(_)
NumberToString(n) ==
    IF n < 10 THEN <<Digits[n + 1]>>
    ELSE NumberToString(n \div 10) \o <<Digits[(n % 10) + 1]>>

\* the place of a letter in the alphabet, 0 for any other character
LetterRank(c) ==
    LET l == ToLowerChar(c)
    IN  IF \E i \in 1..26 : LowerAlpha[i] = l
        THEN CHOOSE i \in 1..26 : LowerAlpha[i] = l
        ELSE 0

\* a.localeCompare(b) on names: -1, 0 or 1
RECURSIVE localeCompare(_, _)
localeCompare(a, b) ==
    IF a = <<>> /\ b = <<>> THEN 0
    ELSE IF a = <<>> THEN -1
    ELSE IF b = <<>> THEN 1
    ELSE IF LetterRank(Head(a)) < LetterRank(Head(b)) THEN -1
    ELSE IF LetterRank(Head(a)) > LetterRank(Head(b)) THEN 1
    ELSE localeCompare(Tail(a), Tail(b))

\* Array.prototype.sort((a, b) => a.name.localeCompare(b.name)): stable
RECURSIVE InsertByName(_, _)
InsertByName(x, sorted) ==
    IF sorted = <<>> THEN <<x>>
    ELSE IF localeCompare(x.name, Head(sorted).name) < 0 THEN <<x>> \o sorted
    ELSE <<Head(sorted)>> \o InsertByName(x, Tail(sorted))

RECURSIVE SortByName(_)
SortByName(s) ==
    IF s = <<>> THEN <<>>
    ELSE InsertByName(s[Len(s)], SortByName(SubSeq(s, 1, Len(s) - 1)))

\* teams.filter(t => t.national_team === isNationalTeam)
RECURSIVE FilterNational(_, _)
FilterNational(teams, isNationalTeam) ==
    IF teams = <<>> THEN <<>>
    ELSE IF Head(teams).national_team = isNationalTeam
    THEN <<Head(teams)>> \o FilterNational(Tail(teams), isNationalTeam)
    ELSE FilterNational(Tail(teams), isNationalTeam)

\* normalizeTeams(teams, league)
normalizeTeams(teams, league) ==
    LET isNationalTeam == league # "other"
        wanted         == FilterNational(teams, isNationalTeam)
    IN  SortByName([i \in 1..Len(wanted) |->
            [id     |-> NumberToString(wanted[i].id),
             name   |-> wanted[i].name,
             abbrev |-> IF wanted[i].code # <<>> THEN wanted[i].code
                        ELSE ToUpperCase(SubSeq(wanted[i].name, 1, Min(3, Len(wanted[i].name)))),
             logo   |-> wanted[i].image_path]])

\* the national teams of getFallbackTeams, lines 258-271
NationalFallback ==
    <<
       [id |-> <<"i","n","d">>, name |-> <<"I","n","d","i","a">>,
        abbrev |-> <<"I","N","D">>, logo |-> "https://flagcdn.com/w40/in.png"],
       [id |-> <<"a","u","s">>, name |-> <<"A","u","s","t","r","a","l","i","a">>,
        abbrev |-> <<"A","U","S">>, logo |-> "https://flagcdn.com/w40/au.png"],
       [id |-> <<"e","n","g">>, name |-> <<"E","n","g","l","a","n","d">>,
        abbrev |-> <<"E","N","G">>, logo |-> "https://flagcdn.com/w40/gb-eng.png"],
       [id |-> <<"p","a","k">>, name |-> <<"P","a","k","i","s","t","a","n">>,
        abbrev |-> <<"P","A","K">>, logo |-> "https://flagcdn.com/w40/pk.png"],
       [id |-> <<"s","a">>, name |-> <<"S","o","u","t","h"," ","A","f","r","i","c","a">>,
        abbrev |-> <<"S","A">>, logo |-> "https://flagcdn.com/w40/za.png"],
       [id |-> <<"n","z">>, name |-> <<"N","e","w"," ","Z","e","a","l","a","n","d">>,
        abbrev |-> <<"N","Z">>, logo |-> "https://flagcdn.com/w40/nz.png"],
       [id |-> <<"s","l">>, name |-> <<"S","r","i"," ","L","a","n","k","a">>,
        abbrev |-> <<"S","L">>, logo |-> "https://flagcdn.com/w40/lk.png"],
       [id |-> <<"w","i">>, name |-> <<"W","e","s","t"," ","I","n","d","i","e","s">>,
        abbrev |-> <<"W","I">>, logo |-> "https://flagcdn.com/w40/jm.png"],
       [id |-> <<"b","a","n">>, name |-> <<"B","a","n","g","l","a","d","e","s","h">>,
        abbrev |-> <<"B","A","N">>, logo |-> "https://flagcdn.com/w40/bd.png"],
       [id |-> <<"a","f","g">>, name |-> <<"A","f","g","h","a","n","i","s","t","a","n">>,
        abbrev |-> <<"A","F","G">>, logo |-> "https://flagcdn.com/w40/af.png"],
       [id |-> <<"i","r","e">>, name |-> <<"I","r","e","l","a","n","d">>,
        abbrev |-> <<"I","R","E">>, logo |-> "https://flagcdn.com/w40/ie.png"],
       [id |-> <<"z","i","m">>, name |-> <<"Z","i","m","b","a","b","w","e">>,
        abbrev |-> <<"Z","I","M">>, logo |-> "https://flagcdn.com/w40/zw.png"]
    >>

\* getFallbackTeams(league)
getFallbackTeamsNone(league) == <<>>
getFallbackTeams(league) == IF league = "other" THEN <<>> ELSE NationalFallback

Leagues == {"international", "other"}

NoRecord == [present |-> FALSE, teams |-> <<>>, cachedAt |-> 0]

\* age < CACHE_TTL_MS
IsFreshInSeconds(age) == age < CACHE_TTL_DAYS * 24 * 60 * 60
IsFresh(age) == age < CACHE_TTL_MS

\* !env.SPORTMONKS_API_KEY
NoApiKeyNever(e) == FALSE
NoApiKey(e) == ~e.apiKey

\* what the upstream may answer to the request of one page
\* the records of each page
PageData(page) == IF page = 1 THEN <<India, Mumbai>> ELSE <<Australia>>
NoPagination == [current_page |-> 0, total_pages |-> 0]
\* the upstream reports the page it was asked for and a total of its choice
Paginations(page) ==
    {NoPagination} \cup {[current_page |-> page, total_pages |-> t] : t \in 1..MaxPages}
Responses(page) ==
    [kind : {"ok"}, data : {PageData(page)}, pagination : Paginations(page)]
        \cup {[kind |-> k, data |-> <<>>, pagination |-> NoPagination] :
                k \in {"status", "throw"}}

\* an upstream that reports with each page a total of its choice; an upstream
\* of a fixed total reports that total with every page, and no pagination
\* metadata at all when the total is 0
AnyTotal == [fixed |-> FALSE, total_pages |-> 0]
FixedTotals == [fixed : {TRUE}, total_pages : 0..MaxPages]

\* the pagination of a page of the upstream of a fixed total
Reported(page) ==
    IF upstream.total_pages = 0 THEN NoPagination
    ELSE [current_page |-> page, total_pages |-> upstream.total_pages]

\* the responses of the upstream of a fixed total to the request of a page
Conforming(page) ==
    {resp \in Responses(page) : resp.kind = "ok" => resp.pagination = Reported(page)}

\* pagination && pagination.current_page < pagination.total_pages
HasMoreOrLast(resp) ==
    resp.pagination # NoPagination
        /\ resp.pagination.current_page <= resp.pagination.total_pages
HasMore(resp) ==
    resp.pagination # NoPagination
        /\ resp.pagination.current_page < resp.pagination.total_pages

Callers == {1, 2}

NoResult == [kind |-> "none", source |-> "none", teams |-> <<>>,
             success |-> FALSE, count |-> 0, error |-> "none"]

TeamsResult(source, teams) == [NoResult EXCEPT !.kind = "teams", !.source = source, !.teams = teams]
Raised(error) == [NoResult EXCEPT !.kind = "raised", !.error = error]
Report(success, count, error) ==
    [NoResult EXCEPT !.kind = "report", !.success = success, !.count = count, !.error = error]

\* what getCacheStatus resolves with; cachedAt is the timestamp whose ISO string
\* is reported, ageMinutes is a number: -1 stands for null in both
StatusResult(exists, teamCount, cachedAt, ageMinutes, isStale) ==
    [kind |-> "status", exists |-> exists, teamCount |-> teamCount, cachedAt |-> cachedAt,
     ageMinutes |-> ageMinutes, isStale |-> isStale]

\* { exists: false, teamCount: 0, cachedAt: null, ageMinutes: null, isStale: true }
NoCacheStatus == StatusResult(FALSE, 0, -1, -1, TRUE)

\* Math.round(age / 1000 / 60) for an age that is not negative
RoundMinutes(age) == (age + 30000) \div 60000

\* age >= CACHE_TTL_MS
IsStaleStrictly(age) == age > CACHE_TTL_MS
IsStale(age) == age >= CACHE_TTL_MS

\* the message of the error fetchTeamsFromAPI throws or passes on
ErrorOf(resp) == IF resp.kind = "status" THEN "SportsMonk API error" ELSE "fetch failed"

\* a record as a call read it: its teams and its age in milliseconds then
NotSeen == [present |-> FALSE, teams |-> <<>>, age |-> 0]
Seen(record, t) ==
    IF record.present
    THEN [present |-> TRUE, teams |-> record.teams, age |-> t - record.cachedAt]
    ELSE NotSeen

IdleCall ==
    [pc |-> "idle", op |-> "none", league |-> "international",
     page |-> 0, allTeams |-> <<>>, cacheData |-> NoRecord,
     seen |-> NotSeen, reread |-> NotSeen, failed |-> FALSE, storeError |-> FALSE,
     attempts |-> 0, requests |-> 0, reads |-> 0, writes |-> 0,
     result |-> NoResult]

\* the cache variables of a behaviour that does not use the cache
CacheUnused ==
    /\ env = [apiKey |-> FALSE, kv |-> FALSE]
    /\ upstream = AnyTotal
    /\ store = NoRecord
    /\ calls = [c \in Callers |-> IdleCall]

\* fetchTeamsFromAPI up to its first await: the request of page 1 is sent
StartFetch(call) ==
    [call EXCEPT !.pc = "fetch", !.page = 1, !.allTeams = <<>>,
                 !.attempts = @ + 1, !.requests = @ + 1]

\* the call returns: its locals are gone, what is kept describes the call
Returned(call, result) ==
    [call EXCEPT !.pc = "done", !.result = result,
                 !.page = 0, !.allTeams = <<>>, !.cacheData = NoRecord]

rlVars == <<config, buckets, lastCleanup, reqs, last, inst, hist, admitted, shadow>>

\* the state of main's handlers and of the modules they use
apiVars == <<sb, logo, fn, fetchStep>>

\* getCachedTeams(env, league) up to its first await or its return: lines 102-118
GetCachedTeams(c, league) ==
    /\ calls[c].pc = "idle"
    /\ LET call == [IdleCall EXCEPT !.op = "getCachedTeams", !.league = league]
       IN  calls' = [calls EXCEPT ![c] =
              IF NoApiKey(env) THEN Returned(call, TeamsResult("fallback", getFallbackTeams(league)))
              ELSE IF ~env.kv THEN StartFetch(call)
              ELSE [call EXCEPT !.pc = "get", !.reads = 1]]
    /\ UNCHANGED <<env, upstream, store, now, ticks, rlVars, apiVars>>

\* refreshCache(env) up to its first await or its return: lines 168-178
RefreshCacheIfStale(c) ==
    /\ calls[c].pc = "idle"
    /\ LET call == [IdleCall EXCEPT !.op = "refreshCache"]
       IN  calls' = [calls EXCEPT ![c] =
              IF NoApiKey(env)
              THEN Returned(call, Report(FALSE, 0, "SPORTMONKS_API_KEY not configured"))
              ELSE IF ~env.kv
              THEN Returned(call, Report(FALSE, 0, "TEAMS_CACHE KV not configured"))
              ELSE IF store.present /\ IsFresh(now - store.cachedAt)
              THEN Returned(call, Report(TRUE, Len(store.teams), "none"))
              ELSE StartFetch(call)]
    /\ UNCHANGED <<env, upstream, store, now, ticks, rlVars, apiVars>>
RefreshCache(c) ==
    /\ calls[c].pc = "idle"
    /\ LET call == [IdleCall EXCEPT !.op = "refreshCache"]
       IN  calls' = [calls EXCEPT ![c] =
              IF NoApiKey(env)
              THEN Returned(call, Report(FALSE, 0, "SPORTMONKS_API_KEY not configured"))
              ELSE IF ~env.kv
              THEN Returned(call, Report(FALSE, 0, "TEAMS_CACHE KV not configured"))
              ELSE StartFetch(call)]
    /\ UNCHANGED <<env, upstream, store, now, ticks, rlVars, apiVars>>

\* getCacheStatus(env) up to its first await or its return: lines 196-208
GetCacheStatus(c) ==
    /\ calls[c].pc = "idle"
    /\ LET call == [IdleCall EXCEPT !.op = "getCacheStatus"]
       IN  calls' = [calls EXCEPT ![c] =
              IF ~env.kv THEN Returned(call, NoCacheStatus)
              ELSE [call EXCEPT !.pc = "statusGet", !.reads = 1]]
    /\ UNCHANGED <<env, upstream, store, now, ticks, rlVars, apiVars>>

\* the TEAMS_CACHE.get of getCacheStatus settles, lines 208-225: it resolves
\* (ok) or rejects
StatusRead(c, ok) ==
    /\ calls[c].pc = "statusGet"
    /\ LET age == now - store.cachedAt
       IN  calls' = [calls EXCEPT ![c] =
              IF ~ok THEN Returned([@ EXCEPT !.storeError = TRUE], NoCacheStatus)
              ELSE IF ~store.present
              THEN Returned([@ EXCEPT !.seen = Seen(store, now)], NoCacheStatus)
              ELSE Returned([@ EXCEPT !.seen = Seen(store, now)],
                            StatusResult(TRUE, Len(store.teams), store.cachedAt,
                                         RoundMinutes(age), IsStale(age)))]
    /\ UNCHANGED <<env, upstream, store, now, ticks, rlVars, apiVars>>

\* a TEAMS_CACHE operation inside the try block throws: control passes to the
\* catch block, which reads the cache again, lines 146-151
Caught(call) == [call EXCEPT !.pc = "staleGet", !.reads = @ + 1]

\* the first TEAMS_CACHE.get settles, lines 118-134: it resolves (ok) or rejects
CacheRead(c, ok) ==
    /\ calls[c].pc = "get"
    /\ LET call == [calls[c] EXCEPT !.seen = Seen(store, now)]
           age  == now - store.cachedAt
       IN  calls' = [calls EXCEPT ![c] =
              IF ~ok THEN Caught([calls[c] EXCEPT !.storeError = TRUE])
              ELSE IF store.present /\ IsFresh(age)
              THEN Returned(call, TeamsResult("cache", normalizeTeams(store.teams, call.league)))
              ELSE StartFetch(call)]
    /\ UNCHANGED <<env, upstream, store, now, ticks, rlVars, apiVars>>

\* what getCachedTeams does with the record its catch block reads: lines 150-161
OnFailureFallback(call, staleCache) ==
    Returned(call, TeamsResult("fallback", getFallbackTeams(call.league)))
OnFailure(call, staleCache) ==
    IF staleCache.present
    THEN Returned(call, TeamsResult("stale", normalizeTeams(staleCache.teams, call.league)))
    ELSE Returned(call, TeamsResult("fallback", getFallbackTeams(call.league)))

\* the response to the request of a page arrives: lines 65-93, and what the
\* caller does when fetchTeamsFromAPI returns or throws
PageResponse(c, resp) ==
    /\ calls[c].pc = "fetch"
    /\ HasMore(resp) => calls[c].page < MaxPages
    /\ LET call == calls[c]
           all  == call.allTeams \o resp.data
       IN  calls' = [calls EXCEPT ![c] =
              IF resp.kind # "ok"
              THEN IF call.op = "refreshCache"
                   THEN Returned(call, Report(FALSE, 0, ErrorOf(resp)))
                   ELSE IF ~env.kv
                   THEN Returned([call EXCEPT !.failed = TRUE], Raised(ErrorOf(resp)))
                   ELSE Caught([call EXCEPT !.failed = TRUE])
              ELSE IF HasMore(resp)
              THEN [call EXCEPT !.allTeams = all, !.page = @ + 1, !.requests = @ + 1]
              ELSE IF ~env.kv
              THEN Returned([call EXCEPT !.allTeams = all],
                            TeamsResult("direct", normalizeTeams(all, call.league)))
              ELSE [call EXCEPT !.allTeams = all, !.pc = "put", !.writes = @ + 1,
                                !.cacheData = [present |-> TRUE, teams |-> all,
                                               cachedAt |-> now]]]
    /\ UNCHANGED <<env, upstream, store, now, ticks, rlVars, apiVars>>

\* TEAMS_CACHE.put settles, lines 142-145 and 185-189: it resolves (ok) and the
\* record is stored, or it rejects and the catch block of the caller runs
CacheWrite(c, ok) ==
    /\ calls[c].pc = "put"
    /\ store' = IF ok THEN calls[c].cacheData ELSE store
    /\ calls' = [calls EXCEPT ![c] =
          IF ok
          THEN IF @.op = "refreshCache"
               THEN Returned(@, Report(TRUE, Len(@.allTeams), "none"))
               ELSE Returned(@, TeamsResult("fresh", normalizeTeams(@.allTeams, @.league)))
          ELSE IF @.op = "refreshCache"
               THEN Returned([@ EXCEPT !.storeError = TRUE], Report(FALSE, 0, "put failed"))
               ELSE Caught([@ EXCEPT !.storeError = TRUE])]
    /\ UNCHANGED <<env, upstream, now, ticks, rlVars, apiVars>>

\* the TEAMS_CACHE.get of the catch block settles, lines 150-161: it resolves
\* (ok), or it rejects, the error is ignored and the fallback is returned
StaleRead(c, ok) ==
    /\ calls[c].pc = "staleGet"
    /\ calls' = [calls EXCEPT ![c] =
          IF ok
          THEN OnFailure([@ EXCEPT !.reread = Seen(store, now)], store)
          ELSE Returned([@ EXCEPT !.storeError = TRUE],
                        TeamsResult("fallback", getFallbackTeams(@.league)))]
    /\ UNCHANGED <<env, upstream, store, now, ticks, rlVars, apiVars>>

-----------------------------------------------------------------------------
(* types.ts: the match helpers *)

\* String.prototype.split(','): the pieces between the commas
RECURSIVE SplitFrom(_, _)
SplitFrom(s, piece) ==
    IF s = <<>> THEN <<piece>>
    ELSE IF Head(s) = "," THEN <<piece>> \o SplitFrom(Tail(s), <<>>)
    ELSE SplitFrom(Tail(s), Append(piece, Head(s)))

Split(s) == SplitFrom(s, <<>>)

\* Array.prototype.filter(t => t.length > 0)
RECURSIVE DropEmpty(_)
DropEmpty(ts) ==
    IF ts = <<>> THEN <<>>
    ELSE IF Len(Head(ts)) > 0 THEN <<Head(ts)>> \o DropEmpty(Tail(ts))
    ELSE DropEmpty(Tail(ts))

\* teamSearch.split(',').map(t => t.trim().toLowerCase()).filter(t => t.length > 0)
SearchTerms(teamSearch) ==
    LET pieces == Split(teamSearch)
    IN  DropEmpty([i \in 1..Len(pieces) |-> ToLowerCase(Trim(pieces[i]))])

\* the characters of the class [.*+?^${}()|[\]\\]
RegexSpecial == {".", "*", "+", "?", "^", "$", "{", "}", "(", ")", "|", "[", "]", "\\"}

\* search.replace(/[.*+?^${}()|[\]\\]/g, '\\$&')
RECURSIVE EscapeRegex(_)
EscapeRegex(search) ==
    IF search = <<>> THEN <<>>
    ELSE IF Head(search) \in RegexSpecial
    THEN <<"\\", Head(search)>> \o EscapeRegex(Tail(search))
    ELSE <<Head(search)>> \o EscapeRegex(Tail(search))

\* the atoms of a pattern source: an escaped character stands for itself, an
\* unescaped dot for any character, any other character for itself
RECURSIVE RegexAtoms(_)
RegexAtoms(source) ==
    IF source = <<>> THEN <<>>
    ELSE IF Head(source) = "\\" /\ Len(source) >= 2
    THEN <<[any |-> FALSE, ch |-> source[2]]>> \o RegexAtoms(Tail(Tail(source)))
    ELSE IF Head(source) = "."
    THEN <<[any |-> TRUE, ch |-> "."]>> \o RegexAtoms(Tail(source))
    ELSE <<[any |-> FALSE, ch |-> Head(source)]>> \o RegexAtoms(Tail(source))

DigitChars == {"0", "1", "2", "3", "4", "5", "6", "7", "8", "9"}

\* the class \w
IsWordChar(c) ==
    \/ \E i \in 1..26 : LowerAlpha[i] = c \/ UpperAlpha[i] = c
    \/ c \in DigitChars
    \/ c = "_"

\* \b between the characters k and k + 1 of text: a word character on one side only
RegexBoundaryAnywhere(text, k) == TRUE
RegexBoundary(text, k) ==
    (k >= 1 /\ k <= Len(text) /\ IsWordChar(text[k]))
        # (k + 1 >= 1 /\ k + 1 <= Len(text) /\ IsWordChar(text[k + 1]))

\* new RegExp(`\\b${escapedSearch}\\b`, 'i').test(text)
RegexTest(escapedSearch, text) ==
    LET atoms == RegexAtoms(escapedSearch)
        n     == Len(atoms)
    IN  \E i \in 0..(Len(text) - n) :
            /\ RegexBoundary(text, i)
            /\ RegexBoundary(text, i + n)
            /\ \A j \in 1..n :
                  atoms[j].any \/ ToLowerChar(text[i + j]) = ToLowerChar(atoms[j].ch)

\* the predicate of matches.filter in filterByTeam, lines 245-264
TeamMatches(m, teams) ==
    \E k \in 1..Len(teams) :
        LET escapedSearch == EscapeRegex(teams[k])
        IN  \/ RegexTest(escapedSearch, m.home.name)
            \/ RegexTest(escapedSearch, m.home.abbrev)
            \/ RegexTest(escapedSearch, m.away.name)
            \/ RegexTest(escapedSearch, m.away.abbrev)

RECURSIVE FilterTeams(_, _)
FilterTeams(matches, teams) ==
    IF matches = <<>> THEN <<>>
    ELSE IF TeamMatches(Head(matches), teams)
    THEN <<Head(matches)>> \o FilterTeams(Tail(matches), teams)
    ELSE FilterTeams(Tail(matches), teams)

\* filterByTeam(matches, teamSearch)
filterByTeam(matches, teamSearch) ==
    LET teams == SearchTerms(teamSearch)
    IN  IF Len(teams) = 0 THEN matches ELSE FilterTeams(matches, teams)

RECURSIVE FilterStatus(_, _)
FilterStatus(matches, status) ==
    IF matches = <<>> THEN <<>>
    ELSE IF Head(matches).status = status
    THEN <<Head(matches)>> \o FilterStatus(Tail(matches), status)
    ELSE FilterStatus(Tail(matches), status)

\* filterByStatus(matches, status)
filterByStatusNoAll(matches, status) == FilterStatus(matches, status)
filterByStatus(matches, status) ==
    IF status = "all" THEN matches ELSE FilterStatus(matches, status)

\* mapEspnStatus(espnStatus)
mapEspnStatusOngoingFirst(espnStatus) ==
    LET status == ToLowerCase(espnStatus)
    IN  IF \/ Includes(status, <<"p","r","o","g","r","e","s","s">>)
           \/ Includes(status, <<"l","i","v","e">>)
           \/ Includes(status, <<"h","a","l","f","t","i","m","e">>)
           \/ Includes(status, <<"i","n"," ">>)
        THEN "ongoing"
        ELSE IF \/ Includes(status, <<"f","i","n","a","l">>)
                \/ Includes(status, <<"e","n","d">>)
                \/ Includes(status, <<"f","t">>)
                \/ Includes(status, <<"p","o","s","t">>)
        THEN "done"
        ELSE "upcoming"
mapEspnStatus(espnStatus) ==
    LET status == ToLowerCase(espnStatus)
    IN  IF \/ Includes(status, <<"f","i","n","a","l">>)
           \/ Includes(status, <<"e","n","d">>)
           \/ Includes(status, <<"f","t">>)
           \/ Includes(status, <<"p","o","s","t">>)
        THEN "done"
        ELSE IF \/ Includes(status, <<"p","r","o","g","r","e","s","s">>)
                \/ Includes(status, <<"l","i","v","e">>)
                \/ Includes(status, <<"h","a","l","f","t","i","m","e">>)
                \/ Includes(status, <<"i","n"," ">>)
        THEN "ongoing"
        ELSE "upcoming"

-----------------------------------------------------------------------------
(* index.ts: GET /api/scoreboard *)

\* SPORTS: three of the configured sports, with all their leagues
SPORTS ==
    << [name |-> "Basketball", slug |-> <<"b","a","s","k","e","t","b","a","l","l">>,
        leagues |-> << [name |-> "NBA", slug |-> "nba"],
                       [name |-> "WNBA", slug |-> "wnba"] >>],
       [name |-> "Cricket", slug |-> <<"c","r","i","c","k","e","t">>,
        leagues |-> << [name |-> "International", slug |-> "international"],
                       [name |-> "Other League", slug |-> "other"] >>],
       [name |-> "Racing", slug |-> <<"r","a","c","i","n","g">>,
        leagues |-> << [name |-> "Formula 1", slug |-> "f1"],
                       [name |-> "NASCAR Cup", slug |-> "nascar"],
                       [name |-> "IndyCar", slug |-> "indycar"] >>] >>

NoSport == [name |-> "none", slug |-> <<>>, leagues |-> <<>>]

\* getSportBySlug(slug): SPORTS.find(s => s.slug === slug.toLowerCase())
getSportBySlug(slug) ==
    IF \E i \in 1..Len(SPORTS) : SPORTS[i].slug = ToLowerCase(slug)
    THEN SPORTS[CHOOSE i \in 1..Len(SPORTS) :
                    /\ SPORTS[i].slug = ToLowerCase(slug)
                    /\ \A j \in 1..(i - 1) : SPORTS[j].slug # ToLowerCase(slug)]
    ELSE NoSport

\* matches the upstreams serve (Match)
CowboysGiants ==
    [id |-> "1", status |-> "done",
     home |-> [name |-> <<"D","a","l","l","a","s"," ","C","o","w","b","o","y","s">>, abbrev |-> <<"D","A","L">>],
     away |-> [name |-> <<"N","e","w"," ","Y","o","r","k"," ","G","i","a","n","t","s">>, abbrev |-> <<"N","Y","G">>]]
LakersCeltics ==
    [id |-> "2", status |-> "ongoing",
     home |-> [name |-> <<"L","o","s"," ","A","n","g","e","l","e","s"," ","L","a","k","e","r","s">>, abbrev |-> <<"L","A","L">>],
     away |-> [name |-> <<"B","o","s","t","o","n"," ","C","e","l","t","i","c","s">>, abbrev |-> <<"B","O","S">>]]
MumbaiChennai ==
    [id |-> "3", status |-> "upcoming",
     home |-> [name |-> <<"M","u","m","b","a","i"," ","I","n","d","i","a","n","s">>, abbrev |-> <<"M","I">>],
     away |-> [name |-> <<"C","h","e","n","n","a","i"," ","S","u","p","e","r"," ","K","i","n","g","s">>, abbrev |-> <<"C","S","K">>]]
IndiaAustralia ==
    [id |-> "4", status |-> "ongoing",
     home |-> [name |-> <<"I","n","d","i","a">>, abbrev |-> <<"I","N","D">>],
     away |-> [name |-> <<"A","u","s","t","r","a","l","i","a">>, abbrev |-> <<"A","U","S">>]]

\* what espn.getScoreboard resolves with for a league, when it does not reject
EspnFeed(slug) ==
    CASE slug = "nba"     -> <<CowboysGiants, LakersCeltics>>
      [] slug = "wnba"    -> <<MumbaiChennai, IndiaAustralia>>
      [] slug = "f1"      -> <<LakersCeltics>>
      [] slug = "nascar"  -> <<>>
      [] slug = "indycar" -> <<IndiaAustralia, CowboysGiants>>
      [] OTHER            -> <<IndiaAustralia>>

\* what cricbuzz.getScoreboard may resolve with
CricketFeeds == { <<>>, <<MumbaiChennai, IndiaAustralia>>, <<LakersCeltics, IndiaAustralia, CowboysGiants>> }

\* the query parameters of a request; an empty string stands for an absent one
SportParams == { <<"b","a","s","k","e","t","b","a","l","l">>, <<"R","a","c","i","n","g">>, <<"c","r","i","c","k","e","t">>, <<"C","r","i","c","k","e","t">>, <<"c","h","e","s","s">> }
LeagueParams == {"", "wnba", "premier"}
TeamParams == { <<>>, <<"i","n","d","i","a">>, <<" ","D","a","l","l","a","s",",","l","a","l">>, <<" ",","," ">> }
StatusParams == {"all", "ongoing", "done"}

IdleBoard ==
    [pc |-> "idle", sportSlug |-> <<>>, leagueSlug |-> "", team |-> <<>>, status |-> "all",
     leagues |-> <<>>, results |-> <<>>, order |-> <<>>,
     merged |-> <<>>, afterTeam |-> <<>>, filtered |-> <<>>,
     code |-> 0, matches |-> <<>>, path |-> <<>>, targetLeague |-> <<>>,
     error |-> "", failed |-> FALSE]

\* no helper of types.ts has been called
NoFn == [op |-> "none", matches |-> <<>>, teamSearch |-> <<>>, status |-> "all",
         espnStatus |-> <<>>, result |-> <<>>]

Pending == [settled |-> FALSE, rejected |-> FALSE, value |-> <<>>]

\* sport.leagues.find(l => l.slug === leagueSlug)
FindLeague(leagues, leagueSlug) ==
    IF \E i \in 1..Len(leagues) : leagues[i].slug = leagueSlug
    THEN <<leagues[CHOOSE i \in 1..Len(leagues) :
                      /\ leagues[i].slug = leagueSlug
                      /\ \A j \in 1..(i - 1) : leagues[j].slug # leagueSlug]>>
    ELSE <<>>

\* leaguesToFetch, lines 740-746
LeaguesToFetch(sport, leagueSlug) ==
    IF leagueSlug # "" /\ FindLeague(sport.leagues, leagueSlug) # <<>>
    THEN FindLeague(sport.leagues, leagueSlug)
    ELSE sport.leagues

\* Array.prototype.flat on the league results, in the order given
RECURSIVE Flat(_, _)
Flat(results, idx) ==
    IF idx = <<>> THEN <<>>
    ELSE results[Head(idx)].value \o Flat(results, Tail(idx))

\* leagueResults.flat(): Promise.all keeps the order of leaguePromises
MergeByCompletion(req) == Flat(req.results, req.order)
Merge(req) == Flat(req.results, [i \in 1..Len(req.results) |-> i])

\* the team filter step, lines 756-766
TeamStepNoSpecialCase(sportSlug, matches, team) ==
    IF team = <<>> THEN matches ELSE filterByTeam(matches, team)
TeamStep(sportSlug, matches, team) ==
    IF team = <<>> THEN matches
    ELSE LET filteredMatches == filterByTeam(matches, team)
         IN  IF sportSlug = <<"c","r","i","c","k","e","t">> /\ Len(filteredMatches) = 0 /\ Len(matches) > 0
             THEN <<matches[1]>>
             ELSE filteredMatches

\* const order = { ongoing: 0, upcoming: 1, done: 2 }
StatusOrder(status) ==
    CASE status = "ongoing" -> 0 [] status = "upcoming" -> 1 [] status = "done" -> 2

\* matches.sort((a, b) => order[a.status] - order[b.status]): stable
RECURSIVE InsertBeforeEqual(_, _)
InsertBeforeEqual(x, sorted) ==
    IF sorted = <<>> THEN <<x>>
    ELSE IF StatusOrder(x.status) - StatusOrder(Head(sorted).status) <= 0 THEN <<x>> \o sorted
    ELSE <<Head(sorted)>> \o InsertBeforeEqual(x, Tail(sorted))
RECURSIVE InsertByStatus(_, _)
InsertByStatus(x, sorted) ==
    IF sorted = <<>> THEN <<x>>
    ELSE IF StatusOrder(x.status) - StatusOrder(Head(sorted).status) < 0 THEN <<x>> \o sorted
    ELSE <<Head(sorted)>> \o InsertByStatus(x, Tail(sorted))

RECURSIVE SortByStatus(_)
SortByStatus(matches) ==
    IF matches = <<>> THEN <<>>
    ELSE InsertByStatus(matches[Len(matches)], SortByStatus(SubSeq(matches, 1, Len(matches) - 1)))

\* lines 755-788: filter, sort and answer 200 with the matches
Answer(req, matches) ==
    LET afterTeam == TeamStep(req.sportSlug, matches, req.team)
        filtered  == filterByStatus(afterTeam, req.status)
    IN  [req EXCEPT !.pc = "done", !.merged = matches, !.afterTeam = afterTeam,
                    !.filtered = filtered, !.matches = SortByStatus(filtered), !.code = 200]

otherVars == <<now, ticks, env, upstream, store, calls, rlVars>>

\* main for GET /api/scoreboard, after the rate limit check, up to its first
\* await or its return: lines 720-751
Scoreboard(sportSlug, leagueSlug, team, status) ==
    /\ sb.pc = "idle"
    /\ LET sport == getSportBySlug(sportSlug)
           req   == [IdleBoard EXCEPT !.sportSlug = sportSlug, !.leagueSlug = leagueSlug,
                                      !.team = team, !.status = status]
           leaguesToFetch == LeaguesToFetch(sport, leagueSlug)
       IN  sb' = IF sport = NoSport
                 THEN [req EXCEPT !.pc = "done", !.code = 400, !.error = "Unknown sport"]
                 ELSE IF sportSlug = <<"c","r","i","c","k","e","t">>
                 THEN [req EXCEPT !.pc = "cricket"]
                 ELSE [req EXCEPT !.pc = "leagues", !.leagues = leaguesToFetch,
                                  !.results = [i \in 1..Len(leaguesToFetch) |-> Pending]]
    /\ UNCHANGED <<otherVars, logo, fn, fetchStep>>

\* espn.getScoreboard(...).catch(() => []) of league i settles, line 749: the
\* fetch resolves (ok) or rejects and the catch handler gives []
LeagueCatchRethrows(i, ok) ==
    /\ sb.pc = "leagues"
    /\ i \in 1..Len(sb.results)
    /\ ~sb.results[i].settled
    /\ sb' = IF ok
             THEN [sb EXCEPT !.results[i] = [settled |-> TRUE, rejected |-> FALSE,
                                              value |-> EspnFeed(sb.leagues[i].slug)],
                             !.order = Append(@, i)]
             ELSE [sb EXCEPT !.pc = "done", !.code = 500]
    /\ UNCHANGED <<otherVars, logo, fn, fetchStep>>
LeagueSettles(i, ok) ==
    /\ sb.pc = "leagues"
    /\ i \in 1..Len(sb.results)
    /\ ~sb.results[i].settled
    /\ sb' = [sb EXCEPT !.results[i] =
                 [settled  |-> TRUE,
                  rejected |-> ~ok,
                  value    |-> IF ok THEN EspnFeed(sb.leagues[i].slug) ELSE <<>>],
                        !.order = Append(@, i)]
    /\ UNCHANGED <<otherVars, logo, fn, fetchStep>>

\* Promise.all(leaguePromises) resolves and main runs to its return: lines 751-788
Respond ==
    /\ sb.pc = "leagues"
    /\ \A i \in 1..Len(sb.results) : sb.results[i].settled
    /\ sb' = Answer(sb, Merge(sb))
    /\ UNCHANGED <<otherVars, logo, fn, fetchStep>>

\* cricbuzz.getScoreboard resolves and main runs to its return: lines 737, 755-788
CricketResponds(feed) ==
    /\ sb.pc = "cricket"
    /\ sb' = Answer(sb, feed)
    /\ UNCHANGED <<otherVars, logo, fn, fetchStep>>

\* the paths of the requests answered without a provider call
StaticPaths ==
    { <<"/">>, <<>>,
      <<"/","a","p","i","/","s","p","o","r","t","s">>,
      <<"/","a","p","i","/","s","p","o","r","t","s","/">>,
      <<"/","a","p","i","/","s","p","o","r","t","s","/","R","a","c","i","n","g">>,
      <<"/","a","p","i","/","s","p","o","r","t","s","/","c","h","e","s","s","/","x">>,
      <<"/","a","p","i","/","m","a","t","c","h","e","s">> }

\* main for the landing page, /api/sports, /api/sports/<slug> and unknown
\* paths, after the rate limit check: lines 666-696 and 791
StaticRoute(path) ==
    /\ sb.pc = "idle"
    /\ LET req       == [IdleBoard EXCEPT !.path = path, !.pc = "done"]
           segments  == SplitOn(path, <<"/">>, <<>>)
           sportSlug == IF Len(segments) >= 4 THEN segments[4] ELSE <<>>
       IN  sb' = IF path = <<"/">> \/ path = <<>>
                 THEN [req EXCEPT !.code = 200]
                 ELSE IF path = <<"/","a","p","i","/","s","p","o","r","t","s">>
                 THEN [req EXCEPT !.code = 200]
                 ELSE IF StartsWith(path, <<"/","a","p","i","/","s","p","o","r","t","s","/">>)
                 THEN IF sportSlug = <<>>
                      THEN [req EXCEPT !.code = 400, !.error = "Sport slug is required"]
                      ELSE IF getSportBySlug(sportSlug) = NoSport
                      THEN [req EXCEPT !.code = 404, !.error = "Unknown sport"]
                      ELSE [req EXCEPT !.code = 200, !.sportSlug = sportSlug]
                 ELSE [req EXCEPT !.code = 404, !.error = "Not found"]
    /\ UNCHANGED <<otherVars, logo, fn, fetchStep>>

\* targetLeague of /api/teams, lines 712-714
TargetLeague(sport, leagueSlug) ==
    IF leagueSlug # "" /\ FindLeague(sport.leagues, leagueSlug) # <<>>
    THEN FindLeague(sport.leagues, leagueSlug)
    ELSE <<sport.leagues[1]>>

\* main for GET /api/teams, after the rate limit check, up to its first await
\* or its return: lines 699-715
TeamsRoute(sportSlug, leagueSlug) ==
    /\ sb.pc = "idle"
    /\ LET sport == getSportBySlug(sportSlug)
           req   == [IdleBoard EXCEPT !.path = <<"/","a","p","i","/","t","e","a","m","s">>,
                                      !.sportSlug = sportSlug, !.leagueSlug = leagueSlug]
       IN  sb' = IF sport = NoSport \/ Len(sport.leagues) = 0
                 THEN [req EXCEPT !.pc = "done", !.code = 400, !.error = "Unknown sport"]
                 ELSE IF sportSlug = <<"c","r","i","c","k","e","t">>
                 THEN [req EXCEPT !.pc = "done", !.code = 200]
                 ELSE [req EXCEPT !.pc = "teams", !.targetLeague = TargetLeague(sport, leagueSlug)]
    /\ UNCHANGED <<otherVars, logo, fn, fetchStep>>

\* the catch block of main, lines 792-794: a failure that surfaces in the body
\* of the handler is answered with status 500 and its message
BoundaryRethrows(req, message) ==
    [req EXCEPT !.pc = "raised", !.failed = TRUE, !.error = message]
Boundary(req, message) ==
    [req EXCEPT !.pc = "done", !.failed = TRUE, !.code = 500, !.error = message]

\* the messages of the errors a provider call rejects with
ProviderErrors == {"ESPN API error: 503", "fetch failed"}

\* espn.getTeams settles and main runs to its return: lines 715-716; message
\* is "" when the call resolves
TeamsSettle(message) ==
    /\ sb.pc = "teams"
    /\ sb' = IF message = ""
             THEN [sb EXCEPT !.pc = "done", !.code = 200]
             ELSE Boundary(sb, message)
    /\ UNCHANGED <<otherVars, logo, fn, fetchStep>>

-----------------------------------------------------------------------------
(* providers/cricbuzz-teams.ts: the team logo cache *)

\* teams of the two directory pages (CricbuzzTeam); logo "" stands for undefined
DirIndia == [name |-> <<"I","n","d","i","a">>, slug |-> <<"i","n","d","i","a">>, logo |-> "in.jpg"]
DirNepal == [name |-> <<"N","e","p","a","l">>, slug |-> <<"n","e","p","a","l">>, logo |-> ""]
DirMumbai == [name |-> <<"M","u","m","b","a","i"," ","I","n","d","i","a","n","s">>, slug |-> <<"m","u","m","b","a","i","-","i","n","d","i","a","n","s">>, logo |-> "mi.jpg"]

\* the two fetchTeamsFromCricbuzz calls of a build
Directories == {"international", "league"}

\* what fetchTeamsFromCricbuzz resolves with: the teams parsed from the page, or
\* [] when the fetch fails (lines 160-170)
DirectoryTeams(dir) ==
    IF dir = "international" THEN { <<>>, <<DirIndia, DirNepal>> } ELSE { <<>>, <<DirMumbai>> }

\* the teamName argument of getTeamLogo; <<>> is the empty string
TeamNames == { <<>>, <<" ","I","n","d","i","a"," ">>, <<"i","n","d","i","a","n","s">>, <<"K","e","n","y","a">> }

LogoCallers == {1, 2, 3}

IdleLogoCall == [pc |-> "idle", teamName |-> <<>>, started |-> FALSE, waited |-> FALSE,
                 result |-> "none"]

\* the module state at load: lines 198-200
LogoInit ==
    [teamLogoCache    |-> <<>>,
     cacheInitialized |-> FALSE,
     cacheInitPromise |-> "null",
     fetched          |-> [d \in Directories |-> [settled |-> FALSE, teams |-> <<>>]],
     builds           |-> 0,
     inFlight         |-> 0,
     requests         |-> 0,
     callers          |-> [c \in LogoCallers |-> IdleLogoCall]]

\* no fetch step of a cricket provider has been called
NoFetch ==
    [op |-> "none", pc |-> "idle", matchStatus |-> "live", url |-> "",
     failure |-> "none", raised |-> FALSE, body |-> <<>>, value |-> <<>>]

\* the handler variables of a behaviour without requests to the handlers
ApiUnused ==
    /\ sb = IdleBoard
    /\ logo = LogoInit
    /\ fn = NoFn
    /\ fetchStep = NoFetch

\* Map.prototype.set on a Map kept in insertion order
LogoSet(cache, key, value) ==
    IF \E i \in 1..Len(cache) : cache[i].key = key
    THEN [i \in 1..Len(cache) |->
             IF cache[i].key = key THEN [key |-> key, logo |-> value] ELSE cache[i]]
    ELSE Append(cache, [key |-> key, logo |-> value])

\* lines 225-231: the names and slugs of the teams that have a logo
RECURSIVE Populate(_, _)
Populate(cache, allTeams) ==
    IF allTeams = <<>> THEN cache
    ELSE IF Head(allTeams).logo # ""
    THEN Populate(LogoSet(LogoSet(cache, ToLowerCase(Head(allTeams).name), Head(allTeams).logo),
                          Head(allTeams).slug, Head(allTeams).logo),
                  Tail(allTeams))
    ELSE Populate(cache, Tail(allTeams))

\* lines 256-270: exact match, then the first partial match in insertion order
Lookup(cache, teamName) ==
    LET lowerName == Trim(ToLowerCase(teamName))
        exact     == {i \in 1..Len(cache) : cache[i].key = lowerName}
        partial   == {i \in 1..Len(cache) :
                         Includes(lowerName, cache[i].key) \/ Includes(cache[i].key, lowerName)}
    IN  IF exact # {} THEN cache[CHOOSE i \in exact : TRUE].logo
        ELSE IF partial # {} THEN cache[CHOOSE i \in partial : \A j \in partial : i <= j].logo
        ELSE "undefined"

\* if (cacheInitPromise): a build was started before
BuildStartedNever(l) == FALSE
BuildStarted(l) == l.cacheInitPromise # "null"

\* getTeamLogo(teamName) up to its first await or its return: lines 248-256,
\* with initLogoCache up to its await, lines 205-240
GetTeamLogo(c, teamName) ==
    /\ logo.callers[c].pc \in {"idle", "done"}
    /\ LET call == [IdleLogoCall EXCEPT !.teamName = teamName]
       IN  logo' =
             IF teamName = <<>>
             THEN [logo EXCEPT !.callers[c] = [call EXCEPT !.pc = "done", !.result = "undefined"]]
             ELSE IF logo.cacheInitialized
             THEN [logo EXCEPT !.callers[c] =
                      [call EXCEPT !.pc = "done", !.result = Lookup(logo.teamLogoCache, teamName)]]
             ELSE IF BuildStarted(logo)
             THEN [logo EXCEPT !.callers[c] =
                      [call EXCEPT !.pc = "await", !.waited = logo.cacheInitPromise = "pending"]]
             ELSE [logo EXCEPT !.callers[c] = [call EXCEPT !.pc = "await", !.started = TRUE],
                               !.cacheInitPromise = "pending",
                               !.fetched = [d \in Directories |-> [settled |-> FALSE, teams |-> <<>>]],
                               !.builds = @ + 1,
                               !.inFlight = @ + 1,
                               !.requests = @ + 2]
    /\ UNCHANGED <<otherVars, sb, fn, fetchStep>>

\* one fetchTeamsFromCricbuzz of the build resolves: lines 150-171
DirectoryResponds(dir, teams) ==
    /\ logo.cacheInitPromise = "pending"
    /\ ~logo.fetched[dir].settled
    /\ logo' = [logo EXCEPT !.fetched[dir] = [settled |-> TRUE, teams |-> teams]]
    /\ UNCHANGED <<otherVars, sb, fn, fetchStep>>

\* Promise.all of the build resolves and the build runs to its end: lines
\* 222-237; ok is false when the try block throws
BuildCompletesUnlessEmpty(ok) ==
    /\ logo.cacheInitPromise = "pending"
    /\ \A d \in Directories : logo.fetched[d].settled
    /\ LET allTeams == logo.fetched["international"].teams \o logo.fetched["league"].teams
           filled   == ok /\ Populate(logo.teamLogoCache, allTeams) # <<>>
       IN  logo' = [logo EXCEPT
                       !.teamLogoCache = IF ok THEN Populate(@, allTeams) ELSE @,
                       !.cacheInitialized = filled,
                       !.cacheInitPromise = IF filled THEN "settled" ELSE "null",
                       !.inFlight = @ - 1,
                       !.callers = [c \in LogoCallers |->
                                       IF @[c].pc = "await" /\ ~filled
                                       THEN [@[c] EXCEPT !.pc = "done", !.result = "undefined"]
                                       ELSE @[c]]]
    /\ UNCHANGED <<otherVars, sb, fn, fetchStep>>
BuildCompletes(ok) ==
    /\ logo.cacheInitPromise = "pending"
    /\ \A d \in Directories : logo.fetched[d].settled
    /\ LET allTeams == logo.fetched["international"].teams \o logo.fetched["league"].teams
       IN  logo' = [logo EXCEPT
                       !.teamLogoCache = IF ok THEN Populate(@, allTeams) ELSE @,
                       !.cacheInitialized = ok,
                       !.cacheInitPromise = "settled",
                       !.inFlight = @ - 1]
    /\ UNCHANGED <<otherVars, sb, fn, fetchStep>>

\* a call awaiting cacheInitPromise resumes and looks the name up: lines 256-270
LogoResumeUnsettled(c) ==
    /\ logo.callers[c].pc = "await"
    /\ logo' = [logo EXCEPT !.callers[c].pc = "done",
                            !.callers[c].result =
                                Lookup(logo.teamLogoCache, logo.callers[c].teamName)]
    /\ UNCHANGED <<otherVars, sb, fn, fetchStep>>
LogoResume(c) ==
    /\ logo.callers[c].pc = "await"
    /\ logo.cacheInitPromise = "settled"
    /\ logo' = [logo EXCEPT !.callers[c].pc = "done",
                            !.callers[c].result =
                                Lookup(logo.teamLogoCache, logo.callers[c].teamName)]
    /\ UNCHANGED <<otherVars, sb, fn, fetchStep>>

-----------------------------------------------------------------------------
(* providers/cricinfo.ts: the live-score feed *)

\* TEAM_FLAGS, in the order of its keys; flag is the file name of the image
TEAM_FLAGS ==
    << [team |-> <<"A","u","s","t","r","a","l","i","a">>, flag |-> "au"],
       [team |-> <<"E","n","g","l","a","n","d">>, flag |-> "gb-eng"],
       [team |-> <<"I","n","d","i","a">>, flag |-> "in"],
       [team |-> <<"P","a","k","i","s","t","a","n">>, flag |-> "pk"],
       [team |-> <<"S","o","u","t","h"," ","A","f","r","i","c","a">>, flag |-> "za"],
       [team |-> <<"N","e","w"," ","Z","e","a","l","a","n","d">>, flag |-> "nz"],
       [team |-> <<"S","r","i"," ","L","a","n","k","a">>, flag |-> "lk"],
       [team |-> <<"W","e","s","t"," ","I","n","d","i","e","s">>, flag |-> "jm"],
       [team |-> <<"B","a","n","g","l","a","d","e","s","h">>, flag |-> "bd"],
       [team |-> <<"A","f","g","h","a","n","i","s","t","a","n">>, flag |-> "af"],
       [team |-> <<"I","r","e","l","a","n","d">>, flag |-> "ie"],
       [team |-> <<"Z","i","m","b","a","b","w","e">>, flag |-> "zw"],
       [team |-> <<"S","c","o","t","l","a","n","d">>, flag |-> "gb-sct"],
       [team |-> <<"N","e","t","h","e","r","l","a","n","d","s">>, flag |-> "nl"],
       [team |-> <<"N","a","m","i","b","i","a">>, flag |-> "na"],
       [team |-> <<"U","A","E">>, flag |-> "ae"],
       [team |-> <<"U","n","i","t","e","d"," ","A","r","a","b"," ","E","m","i","r","a","t","e","s">>, flag |-> "ae"],
       [team |-> <<"N","e","p","a","l">>, flag |-> "np"],
       [team |-> <<"O","m","a","n">>, flag |-> "om"],
       [team |-> <<"U","S","A">>, flag |-> "us"],
       [team |-> <<"U","n","i","t","e","d"," ","S","t","a","t","e","s">>, flag |-> "us"],
       [team |-> <<"C","a","n","a","d","a">>, flag |-> "ca"],
       [team |-> <<"K","e","n","y","a">>, flag |-> "ke"],
       [team |-> <<"H","o","n","g"," ","K","o","n","g">>, flag |-> "hk"],
       [team |-> <<"P","a","p","u","a"," ","N","e","w"," ","G","u","i","n","e","a">>, flag |-> "pg"] >>

\* getTeamFlag(teamName): the exact key, else the first key found as a word
getTeamFlag(teamName) ==
    LET normalizedName == Trim(teamName)
        direct == {i \in 1..Len(TEAM_FLAGS) : TEAM_FLAGS[i].team = normalizedName}
        found  == {i \in 1..Len(TEAM_FLAGS) : RegexTest(TEAM_FLAGS[i].team, normalizedName)}
    IN  IF teamName = <<>> THEN "undefined"
        ELSE IF direct # {} THEN TEAM_FLAGS[CHOOSE i \in direct : TRUE].flag
        ELSE IF found # {} THEN TEAM_FLAGS[CHOOSE i \in found : \A j \in found : i <= j].flag
        ELSE "undefined"

\* parseScore(scoreStr): the string itself; the caller turns undefined into ''
parseScore(scoreStr) == scoreStr

\* cricinfo.ts getAbbrev(name)
getAbbrev(name) ==
    LET words    == Words(Trim(name))
        initials == [i \in 1..Len(words) |-> IF words[i] = <<>> THEN "" ELSE words[i][1]]
    IN  IF name = <<>> THEN <<"T","B","D">>
        ELSE IF Len(words) = 1 THEN ToUpperCase(SubSeq(name, 1, Min(3, Len(name))))
        ELSE ToUpperCase(SubSeq(initials, 1, Min(3, Len(initials))))

\* cricinfo.ts decodeHtmlEntities(str): the five replacements, in this order
decodeHtmlEntities(str) ==
    ReplaceAll(ReplaceAll(ReplaceAll(ReplaceAll(ReplaceAll(str,
        <<"&","a","m","p",";">>, <<"&">>),
        <<"&","l","t",";">>, <<"<">>),
        <<"&","g","t",";">>, <<">">>),
        <<"&","q","u","o","t",";">>, <<"\"">>),
        <<"&","#","3","9",";">>, <<"'">>)

\* formatScore(score): score.replace(/\/10/g, '')
formatScore(score) == ReplaceAll(score, <<"/","1","0">>, <<>>)

\* the pattern \d+
AllDigits(t) == t # <<>> /\ \A i \in 1..Len(t) : t[i] \in DigitChars

\* the pattern \d+(?:\/\d+)? over a whole string
IsScore(t) ==
    \/ AllDigits(t)
    \/ \E k \in 2..(Len(t) - 1) :
          /\ t[k] = "/"
          /\ AllDigits(SubSeq(t, 1, k - 1))
          /\ AllDigits(SubSeq(t, k + 1, Len(t)))

\* the place of the last white space character of s, 0 when it has none
LastSpace(s) ==
    IF \E i \in 1..Len(s) : s[i] \in WhiteSpace
    THEN CHOOSE i \in 1..Len(s) :
             /\ s[i] \in WhiteSpace
             /\ \A j \in (i + 1)..Len(s) : s[j] \notin WhiteSpace
    ELSE 0

NoScoreMatch == [matched |-> FALSE, name |-> <<>>, score |-> <<>>]

\* cleanStr.match(/(.+?)\s+(\d+(?:\/\d+)?)$/) on one line of text that starts
\* with no space: the last word is the score, what precedes the space before
\* it is the name
ScoreMatch(cleanStr) ==
    LET k == LastSpace(cleanStr)
    IN  IF /\ k > 1
           /\ IsScore(SubSeq(cleanStr, k + 1, Len(cleanStr)))
        THEN [matched |-> TRUE,
              name    |-> TrimEnd(SubSeq(cleanStr, 1, k - 1)),
              score   |-> SubSeq(cleanStr, k + 1, Len(cleanStr))]
        ELSE NoScoreMatch

NoInningsMatch == [matched |-> FALSE, name |-> <<>>, first |-> <<>>, second |-> <<>>]

\* cleanStr.match(/(.+?)\s+(\d+(?:\/\d+)?)\s*&\s+(\d+(?:\/\d+)?)\s*$/)
MultiInningsMatch(cleanStr) ==
    LET second == ScoreMatch(cleanStr)
        upTo   == second.name
        first  == IF upTo # <<>> /\ upTo[Len(upTo)] = "&"
                  THEN ScoreMatch(TrimEnd(SubSeq(upTo, 1, Len(upTo) - 1)))
                  ELSE NoScoreMatch
    IN  IF second.matched /\ first.matched
        THEN [matched |-> TRUE, name |-> first.name,
              first |-> first.score, second |-> second.score]
        ELSE NoInningsMatch

\* parseTeamString(str), lines 151-188
parseTeamString(str) ==
    LET isBatting == Includes(str, <<"*">>)
        cleanStr  == Trim(ReplaceFirst(str, <<"*">>, <<>>))
        multiInningsMatch == MultiInningsMatch(cleanStr)
        scoreMatch == ScoreMatch(cleanStr)
    IN  IF multiInningsMatch.matched
        THEN [name  |-> Trim(multiInningsMatch.name),
              score |-> formatScore(multiInningsMatch.first \o <<" ","&"," ">>
                                        \o multiInningsMatch.second),
              isBatting |-> isBatting]
        ELSE [name  |-> IF scoreMatch.matched THEN Trim(scoreMatch.name) ELSE cleanStr,
              score |-> formatScore(parseScore(IF scoreMatch.matched THEN scoreMatch.score ELSE <<>>)),
              isBatting |-> isBatting]

\* an element an item lacks
NoElement == [present |-> FALSE, text |-> <<>>]

Element(text) == [present |-> TRUE, text |-> text]

\* item.match(/<title>([^<]+)<\/title>/) and the like: the text of the element
\* when it is not empty and holds no markup, <<>> for no match
ElementMatch(element) ==
    IF element.present /\ element.text # <<>> /\ ~Includes(element.text, <<"<">>)
    THEN element.text
    ELSE <<>>

\* the digits of the first  match/<digits>.html  in s, <<>> for no match
MatchHtml(s) ==
    LET prefix == <<"m","a","t","c","h","/">>
        suffix == <<".","h","t","m","l">>
        ends(i) == {j \in (i + Len(prefix) + 1)..Len(s) :
                       /\ AllDigits(SubSeq(s, i + Len(prefix) + 1, j))
                       /\ SubSeq(s, j + 1, j + Len(suffix)) = suffix}
        starts == {i \in 0..(Len(s) - Len(prefix)) :
                       SubSeq(s, i + 1, i + Len(prefix)) = prefix /\ ends(i) # {}}
    IN  IF starts = {} THEN <<>>
        ELSE LET i == CHOOSE i \in starts : \A k \in starts : i <= k
             IN  SubSeq(s, i + Len(prefix) + 1, CHOOSE j \in ends(i) : TRUE)

\* the text of an item as far as  match/<digits>.html  can occur in it
ItemText(item) == item.title.text \o <<" ">> \o item.link.text \o <<" ">> \o item.guid.text

\* new Date(pubDate).toISOString() for the dates in use; an invalid date throws
\* and leaves time undefined
ToISOString(pubDate) ==
    IF pubDate = "Sun, 05 Jan 2025 10:00:00 GMT" THEN "2025-01-05T10:00:00.000Z"
    ELSE "undefined"

\* the status of a parsed item, lines 213-219
ItemStatusKeepsOngoing(matchStatus, t1, t2) == matchStatus
ItemStatus(matchStatus, t1, t2) ==
    IF matchStatus = "ongoing" /\ t1.score = <<>> /\ t2.score = <<>>
    THEN "upcoming"
    ELSE matchStatus

\* parseMatchFromRSSItem(item, matchStatus): <<>> for null, else the one match
parseMatchFromRSSItem(item, matchStatus) ==
    LET titleMatch == ElementMatch(item.title)
        guidMatch  == IF ElementMatch(item.guid) # <<>>
                      THEN ElementMatch(item.guid)
                      ELSE MatchHtml(ItemText(item))
        title      == decodeHtmlEntities(titleMatch)
        idMatch    == MatchHtml(guidMatch)
        matchId    == IF idMatch # <<>> THEN idMatch ELSE guidMatch
        sides      == SplitOn(title, <<" ","v"," ">>, <<>>)
    IN  IF titleMatch = <<>> \/ guidMatch = <<>> THEN <<>>
        ELSE IF matchId = <<>> THEN <<>>
        ELSE IF Len(sides) < 2 THEN <<>>
        ELSE
            LET t1 == parseTeamString(Trim(sides[1]))
                t2 == parseTeamString(Trim(sides[2]))
                home == [id |-> matchId \o <<"-","1">>, name |-> t1.name,
                         abbrev |-> getAbbrev(t1.name), logo |-> getTeamFlag(t1.name),
                         score |-> t1.score, turn |-> t1.isBatting]
                away == [id |-> matchId \o <<"-","2">>, name |-> t2.name,
                         abbrev |-> getAbbrev(t2.name), logo |-> getTeamFlag(t2.name),
                         score |-> t2.score, turn |-> t2.isBatting]
                detail == IF t1.isBatting
                          THEN getAbbrev(t1.name) \o <<" ","i","s"," ","b","a","t","t","i","n","g">>
                          ELSE IF t2.isBatting
                          THEN getAbbrev(t2.name) \o <<" ","i","s"," ","b","a","t","t","i","n","g">>
                          ELSE title
            IN  << [id |-> matchId, home |-> home, away |-> away,
                    status |-> ItemStatus(matchStatus, t1, t2),
                    statusDetail |-> detail,
                    time |-> IF item.pubDate # "" THEN ToISOString(item.pubDate) ELSE "undefined",
                    league |-> "Cricket"] >>

\* the itemStatus of getMatches, lines 278-280
TargetStatus(matchStatus) ==
    IF matchStatus = "live" THEN "ongoing"
    ELSE IF matchStatus = "upcoming" THEN "upcoming"
    ELSE "done"

\* the loop of getMatches over the items of the feed, lines 282-288
RECURSIVE ParseItemsStopAtMalformed(_, _)
ParseItemsStopAtMalformed(items, itemStatus) ==
    IF items = <<>> THEN <<>>
    ELSE IF parseMatchFromRSSItem(Head(items), itemStatus) = <<>> THEN <<>>
    ELSE parseMatchFromRSSItem(Head(items), itemStatus)
             \o ParseItemsStopAtMalformed(Tail(items), itemStatus)
RECURSIVE ParseItems(_, _)
ParseItems(items, itemStatus) ==
    IF items = <<>> THEN <<>>
    ELSE parseMatchFromRSSItem(Head(items), itemStatus) \o ParseItems(Tail(items), itemStatus)

-----------------------------------------------------------------------------
(* providers/cricbuzz-teams.ts: the team directory pages *)

\* abbrevMap of getAbbrev
abbrevMap ==
    << [name |-> <<"I","n","d","i","a">>, abbrev |-> <<"I","N","D">>],
       [name |-> <<"A","u","s","t","r","a","l","i","a">>, abbrev |-> <<"A","U","S">>],
       [name |-> <<"E","n","g","l","a","n","d">>, abbrev |-> <<"E","N","G">>],
       [name |-> <<"P","a","k","i","s","t","a","n">>, abbrev |-> <<"P","A","K">>],
       [name |-> <<"S","o","u","t","h"," ","A","f","r","i","c","a">>, abbrev |-> <<"S","A">>],
       [name |-> <<"N","e","w"," ","Z","e","a","l","a","n","d">>, abbrev |-> <<"N","Z">>],
       [name |-> <<"S","r","i"," ","L","a","n","k","a">>, abbrev |-> <<"S","L">>],
       [name |-> <<"W","e","s","t"," ","I","n","d","i","e","s">>, abbrev |-> <<"W","I">>],
       [name |-> <<"B","a","n","g","l","a","d","e","s","h">>, abbrev |-> <<"B","A","N">>],
       [name |-> <<"A","f","g","h","a","n","i","s","t","a","n">>, abbrev |-> <<"A","F","G">>],
       [name |-> <<"I","r","e","l","a","n","d">>, abbrev |-> <<"I","R","E">>],
       [name |-> <<"Z","i","m","b","a","b","w","e">>, abbrev |-> <<"Z","I","M">>],
       [name |-> <<"U","n","i","t","e","d"," ","S","t","a","t","e","s"," ","o","f"," ","A","m","e","r","i","c","a">>, abbrev |-> <<"U","S","A">>],
       [name |-> <<"U","n","i","t","e","d"," ","A","r","a","b"," ","E","m","i","r","a","t","e","s">>, abbrev |-> <<"U","A","E">>],
       [name |-> <<"H","o","n","g"," ","K","o","n","g",","," ","C","h","i","n","a">>, abbrev |-> <<"H","K">>],
       [name |-> <<"P","a","p","u","a"," ","N","e","w"," ","G","u","i","n","e","a">>, abbrev |-> <<"P","N","G">>],
       [name |-> <<"C","h","e","n","n","a","i"," ","S","u","p","e","r"," ","K","i","n","g","s">>, abbrev |-> <<"C","S","K">>],
       [name |-> <<"M","u","m","b","a","i"," ","I","n","d","i","a","n","s">>, abbrev |-> <<"M","I">>],
       [name |-> <<"R","o","y","a","l"," ","C","h","a","l","l","e","n","g","e","r","s"," ","B","e","n","g","a","l","u","r","u">>, abbrev |-> <<"R","C","B">>],
       [name |-> <<"K","o","l","k","a","t","a"," ","K","n","i","g","h","t"," ","R","i","d","e","r","s">>, abbrev |-> <<"K","K","R">>],
       [name |-> <<"D","e","l","h","i"," ","C","a","p","i","t","a","l","s">>, abbrev |-> <<"D","C">>],
       [name |-> <<"R","a","j","a","s","t","h","a","n"," ","R","o","y","a","l","s">>, abbrev |-> <<"R","R">>],
       [name |-> <<"P","u","n","j","a","b"," ","K","i","n","g","s">>, abbrev |-> <<"P","B","K","S">>],
       [name |-> <<"S","u","n","r","i","s","e","r","s"," ","H","y","d","e","r","a","b","a","d">>, abbrev |-> <<"S","R","H">>],
       [name |-> <<"G","u","j","a","r","a","t"," ","T","i","t","a","n","s">>, abbrev |-> <<"G","T">>],
       [name |-> <<"L","u","c","k","n","o","w"," ","S","u","p","e","r"," ","G","i","a","n","t","s">>, abbrev |-> <<"L","S","G">>],
       [name |-> <<"L","a","h","o","r","e"," ","Q","a","l","a","n","d","a","r","s">>, abbrev |-> <<"L","Q">>],
       [name |-> <<"P","e","s","h","a","w","a","r"," ","Z","a","l","m","i">>, abbrev |-> <<"P","Z">>],
       [name |-> <<"I","s","l","a","m","a","b","a","d"," ","U","n","i","t","e","d">>, abbrev |-> <<"I","U">>],
       [name |-> <<"K","a","r","a","c","h","i"," ","K","i","n","g","s">>, abbrev |-> <<"K","K">>],
       [name |-> <<"Q","u","e","t","t","a"," ","G","l","a","d","i","a","t","o","r","s">>, abbrev |-> <<"Q","G">>],
       [name |-> <<"M","u","l","t","a","n"," ","S","u","l","t","a","n","s">>, abbrev |-> <<"M","S">>] >>

\* cricbuzz-teams.ts decodeHtmlEntities(str): the six replacements, in this order
decodeTeamEntities(str) ==
    ReplaceAll(decodeHtmlEntities(str), <<"&","n","b","s","p",";">>, <<" ">>)

\* name.replace(/[^a-zA-Z\s]/g, '')
RECURSIVE LettersAndSpaces(_)
LettersAndSpaces(name) ==
    IF name = <<>> THEN <<>>
    ELSE IF LetterRank(Head(name)) > 0 \/ Head(name) \in WhiteSpace
    THEN <<Head(name)>> \o LettersAndSpaces(Tail(name))
    ELSE LettersAndSpaces(Tail(name))

\* cricbuzz-teams.ts getAbbrev(name), lines 42-86
getTeamAbbrev(name) ==
    LET known    == {i \in 1..Len(abbrevMap) : abbrevMap[i].name = name}
        words    == Words(Trim(LettersAndSpaces(name)))
        initials == [i \in 1..Len(words) |-> words[i][1]]
    IN  IF name = <<>> THEN <<"T","B","D">>
        ELSE IF known # {} THEN abbrevMap[CHOOSE i \in known : TRUE].abbrev
        ELSE IF Len(words) = 1 THEN ToUpperCase(SubSeq(words[1], 1, Min(3, Len(words[1]))))
        ELSE ToUpperCase(SubSeq(initials, 1, Min(4, Len(initials))))

\* the navigation labels to skip
skipLabels ==
    { <<"I","n","t","e","r","n","a","t","i","o","n","a","l">>,
      <<"D","o","m","e","s","t","i","c">>,
      <<"L","e","a","g","u","e">>,
      <<"W","o","m","e","n">>,
      <<"T","e","s","t"," ","T","e","a","m","s">>,
      <<"A","s","s","o","c","i","a","t","e"," ","T","e","a","m","s">>,
      <<"L","e","a","g","u","e"," ","T","e","a","m","s">> }

\* the logo of an anchor: the src of its <img>, made absolute; <<>> is undefined
LogoOf(img) ==
    IF img # <<>> /\ Head(img) = "/"
    THEN <<"h","t","t","p","s",":","/","/","w","w","w",".","c","r","i","c","b","u","z","z",".","c","o","m">> \o img
    ELSE img

\* the name of an anchor, lines 110-116: the text of its <span>, else its inner
\* HTML without the tags
NameOf(anchor) ==
    IF ElementMatch(anchor.span) # <<>>
    THEN decodeTeamEntities(Trim(anchor.span.text))
    ELSE decodeTeamEntities(Trim(anchor.text \o anchor.span.text))

\* the loop of parseTeamsFromHTML over the anchors of the page, lines 105-139
RECURSIVE ParseAnchorsMarksDiscarded(_, _)
ParseAnchorsMarksDiscarded(anchors, seenIds) ==
    IF anchors = <<>> THEN <<>>
    ELSE LET a    == Head(anchors)
             name == NameOf(a)
         IN  IF name # <<>> /\ a.id \notin seenIds /\ name \notin skipLabels
             THEN <<[id |-> a.id, name |-> name, abbrev |-> getTeamAbbrev(name),
                     slug |-> a.slug, logo |-> LogoOf(a.img)]>>
                  \o ParseAnchorsMarksDiscarded(Tail(anchors), seenIds \cup {a.id})
             ELSE ParseAnchorsMarksDiscarded(Tail(anchors), seenIds \cup {a.id})
RECURSIVE ParseAnchors(_, _)
ParseAnchors(anchors, seenIds) ==
    IF anchors = <<>> THEN <<>>
    ELSE LET a    == Head(anchors)
             name == NameOf(a)
         IN  IF name # <<>> /\ a.id \notin seenIds /\ name \notin skipLabels
             THEN <<[id |-> a.id, name |-> name, abbrev |-> getTeamAbbrev(name),
                     slug |-> a.slug, logo |-> LogoOf(a.img)]>>
                  \o ParseAnchors(Tail(anchors), seenIds \cup {a.id})
             ELSE ParseAnchors(Tail(anchors), seenIds)

\* parseTeamsFromHTML(html): html is the sequence of the team anchors of the page
parseTeamsFromHTML(html) == SortByName(ParseAnchors(html, {}))

-----------------------------------------------------------------------------
(* The fetch steps of the cricket providers: getMatches, fetchTeamsFromCricbuzz *)

\* items of the live-score feed
ItemAusEng ==
    [title |-> Element(<<"A","u","s","t","r","a","l","i","a"," ","1","6","6","/","2"," ","*"," ","v"," ","E","n","g","l","a","n","d"," ","3","8","4","/","1","0">>),
     link |-> Element(<<"h","t","t","p",":","/","/","c",".","c","o","m","/","m","a","t","c","h","/","1","4",".","h","t","m","l">>),
     guid |-> Element(<<"h","t","t","p",":","/","/","c",".","c","o","m","/","m","a","t","c","h","/","1","4",".","h","t","m","l">>),
     pubDate |-> "Sun, 05 Jan 2025 10:00:00 GMT"]
ItemIndPak ==
    [title |-> Element(<<"I","n","d","i","a"," ","v"," ","P","a","k","i","s","t","a","n">>),
     link |-> NoElement,
     guid |-> Element(<<"7","7">>),
     pubDate |-> ""]
ItemEngAus ==
    [title |-> Element(<<"E","n","g","l","a","n","d"," ","3","8","4","/","1","0"," ","&"," "," ","2","6","7","/","7"," ","v"," ","A","u","s","t","r","a","l","i","a"," ","5","0","0">>),
     link |-> Element(<<"h","t","t","p",":","/","/","c",".","c","o","m","/","m","a","t","c","h","/","9",".","h","t","m","l">>),
     guid |-> NoElement,
     pubDate |-> "soon"]
ItemNoSides ==
    [title |-> Element(<<"N","e","p","a","l"," ","1","2","0","/","3">>),
     link |-> NoElement,
     guid |-> Element(<<"5">>),
     pubDate |-> ""]
ItemNoTitle ==
    [title |-> NoElement,
     link |-> NoElement,
     guid |-> Element(<<"6">>),
     pubDate |-> ""]
ItemNoId ==
    [title |-> Element(<<"O","m","a","n"," ","v"," ","U","A","E">>),
     link |-> Element(<<"h","t","t","p",":","/","/","c",".","c","o","m","/","l","i","v","e">>),
     guid |-> NoElement,
     pubDate |-> ""]
ItemBothBat ==
    [title |-> Element(<<"K","e","n","y","a"," ","7"," ","*"," ","v"," ","S","r","i"," ","L","a","n","k","a"," ","*">>),
     link |-> NoElement,
     guid |-> Element(<<"8">>),
     pubDate |-> ""]
ItemEntity ==
    [title |-> Element(<<"T","o","m"," ","&","a","m","p",";"," ","C","o"," ","v"," ","M","u","m","b","a","i"," ","I","n","d","i","a","n","s"," ","1","2">>),
     link |-> NoElement,
     guid |-> Element(<<"h","t","t","p",":","/","/","c",".","c","o","m","/","m","a","t","c","h","/","x",".","h","t","m","l">>),
     pubDate |-> ""]

ItemAwayBats ==
    [title |-> Element(<<"P","u","n","j","a","b"," ","K","i","n","g","s"," ","9","0"," ","v"," ","P","a","p","u","a"," ","N","e","w"," ","G","u","i","n","e","a"," ","W","o","m","e","n"," ","4","5","/","1"," ","*">>),
     link |-> NoElement,
     guid |-> Element(<<"3","1">>),
     pubDate |-> ""]

ItemPool ==
    {ItemAusEng, ItemIndPak, ItemEngAus, ItemNoSides, ItemNoTitle, ItemNoId,
     ItemBothBat, ItemEntity, ItemAwayBats}

\* the feeds of at most MaxItems items
RssFeeds == UNION {[1..n -> ItemPool] : n \in 0..MaxItems}

\* team anchors of a directory page
AnchorIndia ==
    [slug |-> <<"i","n","d","i","a">>, id |-> <<"2">>,
     span |-> Element(<<"I","n","d","i","a">>), text |-> <<>>,
     img |-> <<"/","a","/","i","n",".","j","p","g">>]
AnchorLabel ==
    [slug |-> <<"l","e","a","g","u","e","-","t","e","a","m","s">>, id |-> <<"9">>,
     span |-> Element(<<"L","e","a","g","u","e"," ","T","e","a","m","s">>), text |-> <<>>,
     img |-> <<>>]
AnchorIndiaWomen ==
    [slug |-> <<"i","n","d","i","a","-","w","o","m","e","n">>, id |-> <<"2">>,
     span |-> Element(<<" ","I","n","d","i","a"," ","W","o","m","e","n"," ">>), text |-> <<>>,
     img |-> <<"/","a","/","i","n","w",".","j","p","g">>]
AnchorBlank ==
    [slug |-> <<"o","m","a","n">>, id |-> <<"3">>,
     span |-> NoElement, text |-> <<" "," ">>,
     img |-> <<>>]
AnchorMumbai ==
    [slug |-> <<"m","u","m","b","a","i","-","i","n","d","i","a","n","s">>, id |-> <<"4">>,
     span |-> NoElement, text |-> <<" ","M","u","m","b","a","i","&","n","b","s","p",";","I","n","d","i","a","n","s">>,
     img |-> <<"h","t","t","p",":","/","/","i","/","m","i",".","j","p","g">>]
AnchorWomen ==
    [slug |-> <<"w","o","m","e","n">>, id |-> <<"2">>,
     span |-> Element(<<"W","o","m","e","n">>), text |-> <<>>,
     img |-> <<>>]
AnchorAfghanistan ==
    [slug |-> <<"a","f","g","h","a","n","i","s","t","a","n">>, id |-> <<"1">>,
     span |-> Element(<<"A","f","g","h","a","n","i","s","t","a","n">>), text |-> <<>>,
     img |-> <<>>]

AnchorPool ==
    {AnchorIndia, AnchorLabel, AnchorIndiaWomen, AnchorBlank, AnchorMumbai,
     AnchorWomen, AnchorAfghanistan}

\* the pages of at most MaxItems anchors
TeamPages == UNION {[1..n -> AnchorPool] : n \in 0..MaxItems}

MatchStatuses == {"live", "recent", "upcoming"}

DirectoryUrls == {"https://www.cricbuzz.com/cricket-team", "https://www.cricbuzz.com/cricket-team/league"}

\* fetch rejects, or resolves with a response that is or is not ok
FetchOutcomes == {"rejected", "notOk", "ok"}

\* getMatches(matchStatus) up to  await fetch(RSS_URL) : lines 254-263
GetMatches(matchStatus) ==
    /\ fetchStep.pc = "idle"
    /\ fetchStep' = [NoFetch EXCEPT !.op = "getMatches", !.pc = "fetch",
                                    !.matchStatus = matchStatus]
    /\ UNCHANGED <<otherVars, sb, logo, fn>>

\* getMatches gives up: return [] at line 269 or in the catch block, line 293
RssFailureRethrows(step, failure) ==
    [step EXCEPT !.pc = "done", !.failure = failure, !.raised = TRUE]
RssFailure(step, failure) ==
    [step EXCEPT !.pc = "done", !.failure = failure, !.value = <<>>]

\* the fetch of getMatches settles: lines 259-272
MatchesResponse(outcome) ==
    /\ fetchStep.op = "getMatches"
    /\ fetchStep.pc = "fetch"
    /\ fetchStep' = CASE outcome = "rejected" -> RssFailure(fetchStep, "transport")
                      [] outcome = "notOk"    -> RssFailure(fetchStep, "status")
                      [] outcome = "ok"       -> [fetchStep EXCEPT !.pc = "text"]
    /\ UNCHANGED <<otherVars, sb, logo, fn>>

\* response.text() of getMatches settles and the items are parsed: lines 272-294
MatchesBody(ok, xml) ==
    /\ fetchStep.op = "getMatches"
    /\ fetchStep.pc = "text"
    /\ fetchStep' =
          IF ok
          THEN [fetchStep EXCEPT !.pc = "done", !.body = xml,
                   !.value = ParseItems(xml, TargetStatus(fetchStep.matchStatus))]
          ELSE RssFailure(fetchStep, "transport")
    /\ UNCHANGED <<otherVars, sb, logo, fn>>

\* fetchTeamsFromCricbuzz(url) up to  await fetch(url) : lines 150-158
FetchTeamsFromCricbuzz(url) ==
    /\ fetchStep.pc = "idle"
    /\ fetchStep' = [NoFetch EXCEPT !.op = "fetchTeamsFromCricbuzz", !.pc = "fetch",
                                    !.url = url]
    /\ UNCHANGED <<otherVars, sb, logo, fn>>

\* fetchTeamsFromCricbuzz gives up: return [] at line 162 or in the catch
\* block, line 169
DirectoryFailure(step, failure) ==
    [step EXCEPT !.pc = "done", !.failure = failure, !.value = <<>>]

\* the fetch of fetchTeamsFromCricbuzz settles: lines 152-165
TeamsResponse(outcome) ==
    /\ fetchStep.op = "fetchTeamsFromCricbuzz"
    /\ fetchStep.pc = "fetch"
    /\ fetchStep' = CASE outcome = "rejected" -> DirectoryFailure(fetchStep, "transport")
                      [] outcome = "notOk"    -> DirectoryFailure(fetchStep, "status")
                      [] outcome = "ok"       -> [fetchStep EXCEPT !.pc = "text"]
    /\ UNCHANGED <<otherVars, sb, logo, fn>>

\* response.text() of fetchTeamsFromCricbuzz settles and the page is parsed:
\* lines 165-170
TeamsBody(ok, html) ==
    /\ fetchStep.op = "fetchTeamsFromCricbuzz"
    /\ fetchStep.pc = "text"
    /\ fetchStep' =
          IF ok
          THEN [fetchStep EXCEPT !.pc = "done", !.body = html,
                                 !.value = parseTeamsFromHTML(html)]
          ELSE DirectoryFailure(fetchStep, "transport")
    /\ UNCHANGED <<otherVars, sb, logo, fn>>

-----------------------------------------------------------------------------
(* Calls of check, and what is recorded of them *)

NoCall == [op |-> "none"]

\* the latest check call: its inputs, the bucket it found, its decision
CallRecord(ip, userAgent, d) ==
    [ op        |-> "check",
      ip        |-> ip,
      userAgent |-> userAgent,
      had       |-> ip \in DOMAIN buckets,
      prior     |-> IF ip \in DOMAIN buckets THEN buckets[ip] ELSE NewBucket(now),
      swept     |-> d.swept,
      allowed   |-> d.allowed,
      reason    |-> d.reason ]

\* the checks of the current instant for a key that reached the token bucket:
\* avail is the token count the first of them found after the refill, fresh
\* tells that this first check created the bucket, admitted counts those allowed
InstAfter(ip, d) ==
    LET c      == LazyCleanup
        stored == IF ip \in DOMAIN c.buckets THEN c.buckets[ip] ELSE NewBucket(now)
        old    == IF ip \in DOMAIN inst
                  THEN inst[ip]
                  ELSE [avail |-> Refill(stored, now).tokens,
                        fresh |-> ip \notin DOMAIN c.buckets,
                        admitted |-> 0]
    IN  MapSet(inst, ip, [old EXCEPT !.admitted = IF d.allowed THEN @ + 1 ELSE @])

\* nothing has happened since  new RateLimiter(given)  at the current time
NoHistory(given) ==
    [given |-> given, constructed |-> now, sweeps |-> <<>>]

\* one more allowed check of key ip at the current time: the log of a key
\* lists its instants of admission with the number of checks allowed at each
Admit(log, ip) ==
    LET old == IF ip \in DOMAIN log THEN log[ip] ELSE <<>>
    IN  MapSet(log, ip,
               IF old # <<>> /\ old[Len(old)].at = now
               THEN [old EXCEPT ![Len(old)].n = @ + 1]
               ELSE Append(old, [at |-> now, n |-> 1]))

\* the past after a call with decision d
Recorded(ip, d) ==
    [hist EXCEPT !.sweeps = IF d.swept THEN Append(@, now) ELSE @]

\* check(ip, userAgent) of a limiter whose buckets are bs and whose lastCleanup
\* is lc, lines 36-80; a limiter that is not sweeping has its lazy cleanup
\* (lines 39-42) disabled
checkOf(bs, lc, sweeping, ip, userAgent) ==
    LET due   == sweeping /\ now - lc > 60000
        kept  == IF due THEN cleanup(bs, now) ELSE bs
        stamp == IF due THEN now ELSE lc
    IN  IF UserAgentRule[userAgent] = "missing"
        THEN [buckets |-> kept, lastCleanup |-> stamp,
              allowed |-> FALSE, reason |-> "Missing User-Agent header"]
        ELSE IF UserAgentRule[userAgent] = "blocked"
        THEN [buckets |-> kept, lastCleanup |-> stamp,
              allowed |-> FALSE, reason |-> "Automated client blocked"]
        ELSE
            LET stored == IF ip \in DOMAIN kept THEN kept[ip] ELSE NewBucket(now)
                bucket == Refill(stored, now)
            IN  IF HasToken(bucket)
                THEN [buckets |-> MapSet(kept, ip, Consume(bucket)), lastCleanup |-> stamp,
                      allowed |-> TRUE, reason |-> "none"]
                ELSE [buckets |-> MapSet(kept, ip, bucket), lastCleanup |-> stamp,
                      allowed |-> FALSE, reason |-> "Rate limit exceeded"]

\* two limiters constructed with the limiter, at the same time and with the
\* same configuration, before any call:
\* - unswept has its sweep disabled and receives every call
\* - spared receives every call but those the limiter rejects for the rate limit
NoShadow ==
    [unswept |-> <<>>, unsweptAllowed |-> FALSE, unsweptReason |-> "none",
     spared |-> <<>>, sparedCleanup |-> now, sparedAllowed |-> FALSE, sparedTokens |-> 0]

\* the two limiters after the call  check(ip, userAgent)  that the limiter
\* decided with d; of the spared limiter the decision and the token count it
\* would give to the call are kept also when the call is not passed on to it
Shadowed(ip, userAgent, d) ==
    LET u == checkOf(shadow.unswept, 0, FALSE, ip, userAgent)
        s == checkOf(shadow.spared, shadow.sparedCleanup, TRUE, ip, userAgent)
        passed == d.reason # "Rate limit exceeded"
    IN  [unswept        |-> u.buckets,
         unsweptAllowed |-> u.allowed,
         unsweptReason  |-> u.reason,
         spared         |-> IF passed THEN s.buckets ELSE shadow.spared,
         sparedCleanup  |-> IF passed THEN s.lastCleanup ELSE shadow.sparedCleanup,
         sparedAllowed  |-> s.allowed,
         sparedTokens   |-> IF ip \in DOMAIN s.buckets THEN s.buckets[ip].tokens ELSE 0]

\* the effect of one call  check(ip, userAgent)  with decision d
Called(ip, userAgent, d) ==
    /\ buckets' = d.buckets
    /\ lastCleanup' = d.lastCleanup
    /\ last' = CallRecord(ip, userAgent, d)
    /\ hist' = Recorded(ip, d)
    /\ inst' = IF d.reason \in {"none", "Rate limit exceeded"}
               THEN InstAfter(ip, d)
               ELSE inst

\* half the time in which one token accrues, in milliseconds
HalfToken == (500 * config.interval) \div config.limit

\* the clock advances between two events
Advance(d) ==
    /\ ticks < MaxTicks
    /\ now' = now + d
    /\ ticks' = ticks + 1
    /\ last' = NoCall
    /\ inst' = <<>>
    /\ UNCHANGED <<config, buckets, lastCleanup, reqs, hist, admitted, shadow, env, upstream, store, calls, apiVars>>

-----------------------------------------------------------------------------
(* The class RateLimiter under any caller *)

\* the client keys that call the limiter
Keys ==
    IF config.burst <= TwoKeyBurst THEN {"127.0.0.1", "10.0.0.1"} ELSE {"127.0.0.1"}

Check(ip, userAgent) ==
    /\ \E d \in {check(ip, userAgent)} : Called(ip, userAgent, d)
    /\ UNCHANGED <<config, now, ticks, reqs, admitted, shadow, env, upstream, store, calls, apiVars>>

Delays == {HalfToken, 2 * HalfToken, 60000 + HalfToken, 300000 + HalfToken}

Tick(d) == Advance(d)

Procs == {1, 2}

\* a request slot of main: the request it holds or held last, the decision of
\* the rate limit check on it, the upstream work started for it, its response
Idle == [pc |-> "idle", ip |-> "", method |-> "", decision |-> "none",
         fetches |-> 0, code |-> 0, error |-> ""]

InitRL ==
    /\ now = 0
    /\ \E c \in ConstructorArgs :
          /\ config = Construct(c)
          /\ hist = NoHistory(c)
    /\ admitted = <<>>
    /\ shadow = NoShadow
    /\ buckets = <<>>
    /\ lastCleanup = now
    /\ ticks = 0
    /\ reqs = [r \in Procs |-> Idle]
    /\ last = NoCall
    /\ inst = <<>>
    /\ CacheUnused
    /\ ApiUnused

vars == <<config, buckets, lastCleanup, now, ticks, reqs, last, inst, hist, admitted, shadow, env,
          upstream, store, calls, sb, logo, fn, fetchStep>>

NextRL ==
    \/ \E ip \in Keys, ua \in UserAgents : Check(ip, ua)
    \/ \E d \in Delays : Tick(d)

SpecRL == InitRL /\ [][NextRL]_vars

-----------------------------------------------------------------------------
(* The class RateLimiter with the allowed checks of every key logged *)

LoggedAgents == { [isNull |-> FALSE, text |-> <<"M","o","z","i","l","l","a">>] }

CheckLogged(ip, userAgent) ==
    /\ \E d \in {check(ip, userAgent)} :
          /\ Called(ip, userAgent, d)
          /\ admitted' = IF d.allowed THEN Admit(admitted, ip) ELSE admitted
    /\ UNCHANGED <<config, now, ticks, reqs, shadow, env, upstream, store, calls, apiVars>>

TickLogged(d) == Advance(d)

NextLogged ==
    \/ \E ip \in Keys, ua \in LoggedAgents : CheckLogged(ip, ua)
    \/ \E d \in Delays : TickLogged(d)

SpecLogged == InitRL /\ [][NextLogged]_vars

-----------------------------------------------------------------------------
(* main: the request boundary, with the global rateLimiter *)

\* the cf-connecting-ip header; "" stands for a missing or empty header
IpHeaders == {"", "127.0.0.1"}

\* request.headers.get('cf-connecting-ip') || '127.0.0.1'
ClientIp(header) == IF header = "" THEN "127.0.0.1" ELSE header

\* "/" answers without awaiting; "/api/scoreboard" awaits the upstream fetches
Paths == {"/", "/api/scoreboard"}

\* an OPTIONS request is answered before the rate limit check, lines 650-652
Options(r) ==
    /\ reqs[r].pc = "idle"
    /\ reqs' = [reqs EXCEPT ![r] = [Idle EXCEPT !.method = "OPTIONS", !.code = 200]]
    /\ UNCHANGED <<config, buckets, lastCleanup, now, ticks, last, inst, hist, admitted, shadow, env, upstream, store, calls, apiVars>>

\* if (!limitResult.allowed), line 661
RejectsNever(limitResult) == FALSE
Rejects(limitResult) == ~limitResult.allowed

\* main(request) for any other method, up to its first await or its return
Main(r, header, userAgent, path) ==
    /\ reqs[r].pc = "idle"
    /\ \E limitResult \in {check(ClientIp(header), userAgent)} :
          /\ Called(ClientIp(header), userAgent, limitResult)
          /\ LET req == [Idle EXCEPT !.method = "GET", !.ip = ClientIp(header),
                                     !.decision = IF limitResult.allowed THEN "allowed"
                                                  ELSE "rejected"]
             IN  reqs' = [reqs EXCEPT ![r] =
                    IF Rejects(limitResult)
                    THEN [req EXCEPT !.code = 429, !.error = limitResult.reason]
                    ELSE IF path = "/"
                    THEN [req EXCEPT !.code = 200]
                    ELSE [req EXCEPT !.pc = "awaiting", !.fetches = 1]]
    /\ UNCHANGED <<config, now, ticks, admitted, shadow, env, upstream, store, calls, apiVars>>

\* the awaited upstream work of a request settles and main returns
Settle(r) ==
    /\ reqs[r].pc = "awaiting"
    /\ reqs' = [reqs EXCEPT ![r] = [@ EXCEPT !.pc = "idle", !.code = 200]]
    /\ UNCHANGED <<config, buckets, lastCleanup, now, ticks, last, inst, hist, admitted, shadow, env, upstream, store, calls, apiVars>>

ShortDelays == {HalfToken, 2 * HalfToken}

TickMain(d) == Advance(d)

InitMain ==
    /\ config = rateLimiter
    /\ buckets = <<>>
    /\ now = 0
    /\ lastCleanup = now
    /\ ticks = 0
    /\ reqs = [r \in Procs |-> Idle]
    /\ last = NoCall
    /\ inst = <<>>
    /\ hist = NoHistory([limit |-> 60, burst |-> 10, interval |-> 60])
    /\ admitted = <<>>
    /\ shadow = NoShadow
    /\ CacheUnused
    /\ ApiUnused

NextMain ==
    \/ \E r \in Procs : Options(r)
    \/ \E r \in Procs, h \in IpHeaders, ua \in UserAgents, p \in Paths : Main(r, h, ua, p)
    \/ \E r \in Procs : Settle(r)
    \/ \E d \in ShortDelays : TickMain(d)

SpecMain == InitMain /\ [][NextMain]_vars

-----------------------------------------------------------------------------
(* The team cache under concurrent callers *)

OneHour == 60 * 60 * 1000

CacheDelays == {OneHour, CACHE_TTL_MS - OneHour}

TickCache(d) ==
    /\ ticks < MaxTicks
    /\ now' = now + d
    /\ ticks' = ticks + 1
    /\ UNCHANGED <<env, upstream, store, calls, rlVars, apiVars>>

\* the cache store outlives the process: it starts empty or holds the record
\* an earlier process wrote
InitialRecords ==
    {NoRecord, [present |-> TRUE, teams |-> <<India, Mumbai>>, cachedAt |-> 0]}

InitCache ==
    /\ env \in [apiKey : BOOLEAN, kv : BOOLEAN]
    /\ upstream = AnyTotal
    /\ store \in InitialRecords
    /\ calls = [c \in Callers |-> IdleCall]
    /\ now = 0
    /\ ticks = 0
    /\ config = rateLimiter
    /\ buckets = <<>>
    /\ lastCleanup = now
    /\ reqs = [r \in Procs |-> Idle]
    /\ last = NoCall
    /\ inst = <<>>
    /\ hist = NoHistory([limit |-> 60, burst |-> 10, interval |-> 60])
    /\ admitted = <<>>
    /\ shadow = NoShadow
    /\ ApiUnused

NextCache ==
    \/ \E c \in Callers, league \in Leagues : GetCachedTeams(c, league)
    \/ \E c \in Callers : RefreshCache(c)
    \/ \E c \in Callers : GetCacheStatus(c)
    \/ \E c \in Callers, ok \in BOOLEAN : StatusRead(c, ok)
    \/ \E c \in Callers, ok \in BOOLEAN : CacheRead(c, ok)
    \/ \E c \in Callers : \E resp \in Responses(calls[c].page) : PageResponse(c, resp)
    \/ \E c \in Callers, ok \in BOOLEAN : CacheWrite(c, ok)
    \/ \E c \in Callers, ok \in BOOLEAN : StaleRead(c, ok)
    \/ \E d \in CacheDelays : TickCache(d)

SpecCache == InitCache /\ [][NextCache]_vars

-----------------------------------------------------------------------------
(* The paginated fetch from an upstream of a fixed total: every request of a
   page is answered *)

InitPages ==
    /\ env \in [apiKey : {TRUE}, kv : BOOLEAN]
    /\ upstream \in FixedTotals
    /\ store \in InitialRecords
    /\ calls = [c \in Callers |-> IdleCall]
    /\ now = CACHE_TTL_MS + OneHour
    /\ ticks = 0
    /\ config = rateLimiter
    /\ buckets = <<>>
    /\ lastCleanup = now
    /\ reqs = [r \in Procs |-> Idle]
    /\ last = NoCall
    /\ inst = <<>>
    /\ hist = NoHistory([limit |-> 60, burst |-> 10, interval |-> 60])
    /\ admitted = <<>>
    /\ shadow = NoShadow
    /\ ApiUnused

\* the upstream of a fixed total answers the request of a page
PageServed(c) ==
    \E resp \in Conforming(calls[c].page) : PageResponse(c, resp)

NextPages ==
    \/ \E c \in Callers, league \in Leagues : GetCachedTeams(c, league)
    \/ \E c \in Callers : RefreshCache(c)
    \/ \E c \in Callers, ok \in BOOLEAN : CacheRead(c, ok)
    \/ \E c \in Callers : PageServed(c)
    \/ \E c \in Callers, ok \in BOOLEAN : CacheWrite(c, ok)
    \/ \E c \in Callers, ok \in BOOLEAN : StaleRead(c, ok)

\* the fetch of a page settles: it resolves or it rejects
FairPages == \A c \in Callers : WF_vars(PageServed(c))

SpecPages == InitPages /\ [][NextPages]_vars /\ FairPages

-----------------------------------------------------------------------------
(* The scoreboard request: the league fetches settle in any order *)

LimiterUnused ==
    /\ config = rateLimiter
    /\ buckets = <<>>
    /\ now = 0
    /\ lastCleanup = now
    /\ ticks = 0
    /\ reqs = [r \in Procs |-> Idle]
    /\ last = NoCall
    /\ inst = <<>>
    /\ hist = NoHistory([limit |-> 60, burst |-> 10, interval |-> 60])
    /\ admitted = <<>>
    /\ shadow = NoShadow

InitBoard ==
    /\ LimiterUnused
    /\ CacheUnused
    /\ ApiUnused

NextBoard ==
    \/ \E sp \in SportParams, l \in LeagueParams, t \in TeamParams, st \in StatusParams :
          Scoreboard(sp, l, t, st)
    \/ \E i \in 1..Len(sb.results), ok \in BOOLEAN : LeagueSettles(i, ok)
    \/ Respond
    \/ \E feed \in CricketFeeds : CricketResponds(feed)
    \/ \E path \in StaticPaths : StaticRoute(path)
    \/ \E sp \in SportParams, l \in LeagueParams : TeamsRoute(sp, l)
    \/ \E message \in ProviderErrors \cup {""} : TeamsSettle(message)

SpecBoard == InitBoard /\ [][NextBoard]_vars

-----------------------------------------------------------------------------
(* The logo cache under concurrent getTeamLogo calls *)

InitLogo ==
    /\ LimiterUnused
    /\ CacheUnused
    /\ ApiUnused

NextLogo ==
    \/ \E c \in LogoCallers, teamName \in TeamNames : GetTeamLogo(c, teamName)
    \/ \E dir \in Directories : \E teams \in DirectoryTeams(dir) : DirectoryResponds(dir, teams)
    \/ \E ok \in BOOLEAN : BuildCompletes(ok)
    \/ \E c \in LogoCallers : LogoResume(c)

SpecLogo == InitLogo /\ [][NextLogo]_vars

\* what a lookup returns
LogoResults == {"undefined"} \cup {team.logo : team \in {DirIndia, DirNepal, DirMumbai}}

\* the call of c awaiting the settled promise returns, with whatever result:
\* it is enabled when LogoResume(c) is, and the steps of NextLogo that are
\* steps of it are the steps of LogoResume(c)
LogoReturns(c) ==
    /\ logo.callers[c].pc = "await"
    /\ logo.cacheInitPromise = "settled"
    /\ \E result \in LogoResults :
          logo' = [logo EXCEPT !.callers[c].pc = "done", !.callers[c].result = result]
    /\ UNCHANGED <<otherVars, sb, fn, fetchStep>>

\* the fetches of the two directories settle, the build runs on when both have
\* settled, and a call awaiting a settled promise resumes
FairLogo ==
    /\ WF_vars(\E dir \in Directories : \E teams \in DirectoryTeams(dir) : DirectoryResponds(dir, teams))
    /\ WF_vars(\E ok \in BOOLEAN : BuildCompletes(ok))
    /\ \A c \in LogoCallers : WF_vars(LogoReturns(c))

SpecLogoFair == InitLogo /\ [][NextLogo]_vars /\ FairLogo

-----------------------------------------------------------------------------
(* The helpers of types.ts, each called once with arguments of any kind *)

BluesUnited ==
    [id |-> "5", status |-> "upcoming",
     home |-> [name |-> <<"S","t","."," ","L","o","u","i","s"," ","B","l","u","e","s">>, abbrev |-> <<"S","T","L">>],
     away |-> [name |-> <<"D",".","C","."," ","U","n","i","t","e","d">>, abbrev |-> <<"D","C">>]]

MatchPool == {CowboysGiants, LakersCeltics, MumbaiChennai, IndiaAustralia, BluesUnited}

\* the lists of at most MaxMatches matches
MatchLists == UNION {[1..n -> MatchPool] : n \in 0..MaxMatches}

TeamSearches ==
    { <<"i","n","d","i","a">>,
      <<"d","a","l","l","a","s">>,
      <<"D","A","L">>,
      <<"l","a","k","e","r","s">>,
      <<>>,
      <<" ",","," ">>,
      <<"i","n","d">>,
      <<"N","e","w"," ","Y","o","r","k">>,
      <<" ","D","a","l","l","a","s",",","l","a","l">>,
      <<"s","t",".">>,
      <<"d",".","c">>,
      <<"l",".","l">> }

StatusArgs == {"all", "upcoming", "ongoing", "done"}

EspnStatuses ==
    { <<"S","T","A","T","U","S","_","F","I","N","A","L">>,
      <<"F","i","n","a","l">>,
      <<"p","o","s","t">>,
      <<"i","n"," ","p","r","o","g","r","e","s","s">>,
      <<"l","i","v","e">>,
      <<"s","c","h","e","d","u","l","e","d">>,
      <<"p","r","e">>,
      <<"H","A","L","F","T","I","M","E">>,
      <<"S","T","A","T","U","S","_","I","N","_","P","R","O","G","R","E","S","S">>,
      <<"W","e","e","k","e","n","d">>,
      <<"P","o","s","t","p","o","n","e","d",","," ","w","a","s"," ","l","i","v","e">>,
      <<"I","n"," ","5"," ","m","i","n">>,
      <<>> }

CallFilterByTeam(matches, teamSearch) ==
    /\ fn.op = "none"
    /\ fn' = [NoFn EXCEPT !.op = "filterByTeam", !.matches = matches, !.teamSearch = teamSearch,
                          !.result = filterByTeam(matches, teamSearch)]
    /\ UNCHANGED <<otherVars, sb, logo, fetchStep>>

CallFilterByStatus(matches, status) ==
    /\ fn.op = "none"
    /\ fn' = [NoFn EXCEPT !.op = "filterByStatus", !.matches = matches, !.status = status,
                          !.result = filterByStatus(matches, status)]
    /\ UNCHANGED <<otherVars, sb, logo, fetchStep>>

CallMapEspnStatus(espnStatus) ==
    /\ fn.op = "none"
    /\ fn' = [NoFn EXCEPT !.op = "mapEspnStatus", !.espnStatus = espnStatus,
                          !.result = mapEspnStatus(espnStatus)]
    /\ UNCHANGED <<otherVars, sb, logo, fetchStep>>

InitTypes ==
    /\ LimiterUnused
    /\ CacheUnused
    /\ ApiUnused

NextTypes ==
    \/ \E matches \in MatchLists, teamSearch \in TeamSearches : CallFilterByTeam(matches, teamSearch)
    \/ \E matches \in MatchLists, status \in StatusArgs : CallFilterByStatus(matches, status)
    \/ \E espnStatus \in EspnStatuses : CallMapEspnStatus(espnStatus)

SpecTypes == InitTypes /\ [][NextTypes]_vars

-----------------------------------------------------------------------------
(* The fetch steps of the cricket providers, each called once *)

InitFeed ==
    /\ LimiterUnused
    /\ CacheUnused
    /\ ApiUnused

NextFeed ==
    \/ \E matchStatus \in MatchStatuses : GetMatches(matchStatus)
    \/ \E outcome \in FetchOutcomes : MatchesResponse(outcome)
    \/ \E xml \in RssFeeds : MatchesBody(TRUE, xml)
    \/ MatchesBody(FALSE, <<>>)
    \/ \E url \in DirectoryUrls : FetchTeamsFromCricbuzz(url)
    \/ \E outcome \in FetchOutcomes : TeamsResponse(outcome)
    \/ \E html \in TeamPages : TeamsBody(TRUE, html)
    \/ TeamsBody(FALSE, <<>>)

SpecFeed == InitFeed /\ [][NextFeed]_vars

-----------------------------------------------------------------------------
(* RateLimiter.check, with the limiters run beside it *)

ShadowAgents ==
    { [isNull |-> FALSE, text |-> <<"c","u","r","l","/","8">>],
      [isNull |-> FALSE, text |-> <<"M","o","z","i","l","l","a">>] }

\* half a token, eleven half tokens, the time just short of the first sweep,
\* and the times just short of and just past the horizon of the sweep
ShadowDelays == {HalfToken, 11 * HalfToken, 55000, 290000, 300000 + HalfToken}

CheckShadowed(ip, userAgent) ==
    /\ \E d \in {check(ip, userAgent)} :
          /\ Called(ip, userAgent, d)
          /\ shadow' = Shadowed(ip, userAgent, d)
    /\ UNCHANGED <<config, now, ticks, reqs, admitted, env, upstream, store, calls, apiVars>>

TickShadowed(d) == Advance(d)

NextShadow ==
    \/ \E ip \in Keys, ua \in ShadowAgents : CheckShadowed(ip, ua)
    \/ \E d \in ShadowDelays : TickShadowed(d)

SpecShadow == InitRL /\ [][NextShadow]_vars

-----------------------------------------------------------------------------
(* Properties of RateLimiter.check *)

\* does sig occur in s, letters compared without regard to case
ContainsIgnoreCase(s, sig) ==
    \E i \in 0..(Len(s) - Len(sig)) :
        \A j \in 1..Len(sig) : ToLowerChar(s[i + j]) = sig[j]

\* a userAgent that is absent, blank, or carries an automated-client signature
Unacceptable(ua) ==
    \/ ua.isNull
    \/ \A i \in 1..Len(ua.text) : ua.text[i] \in WhiteSpace
    \/ \E sig \in blockedAgents : ContainsIgnoreCase(ua.text, sig)

\* the latest call reached the token bucket of key ip
BucketCall(ip) ==
    /\ last.op = "check"
    /\ last.ip = ip
    /\ ~Unacceptable(last.userAgent)

\* milliseconds between the latest call and the previous refill of its bucket
Elapsed == now - last.prior.lastRefill

\* C1: every stored bucket holds between 0 and burst tokens, after every call
\* and every clock advance.
C1_TokensWithinBurst ==
    \A ip \in DOMAIN buckets :
        /\ buckets[ip].tokens >= 0
        /\ buckets[ip].tokens <= config.burst * TokenUnit

\* a call found a bucket whose refill would have passed burst, and stored it
C1_Witness ==
    /\ last.op = "check"
    /\ last.had
    /\ ~last.swept
    /\ last.reason \in {"none", "Rate limit exceeded"}
    /\ last.prior.tokens + Elapsed * config.limit > config.burst * TokenUnit
    /\ last.ip \in DOMAIN buckets

C3_OneTokenPerPeriod ==
    \A ip \in Keys :
        (BucketCall(ip) /\ last.had /\ last.prior.tokens = 0) =>
            /\ last.allowed <=> (Elapsed * config.limit >= 1000 * config.interval)
            /\ (Elapsed * config.limit = 1000 * config.interval => buckets[ip].tokens = 0)
            /\ (~last.allowed => buckets[ip].tokens = Elapsed * config.limit)

\* a drained bucket was checked exactly interval/limit seconds later
C3_Witness ==
    \E ip \in Keys :
        /\ BucketCall(ip) /\ last.had /\ last.prior.tokens = 0
        /\ Elapsed * config.limit = 1000 * config.interval
        /\ last.allowed

\* C4: a call with an unacceptable userAgent is rejected by a User-Agent rule
\* whatever its bucket holds, and the bucket is neither created nor changed.
C4_UserAgentFirst ==
    (last.op = "check" /\ Unacceptable(last.userAgent)) =>
        /\ ~last.allowed
        /\ last.reason \in {"Missing User-Agent header", "Automated client blocked"}
        /\ (last.ip \in DOMAIN buckets => last.had /\ buckets[last.ip] = last.prior)

\* a blocklisted userAgent in mixed case was rejected although its key had tokens
C4_Witness ==
    /\ last.op = "check"
    /\ last.userAgent.text = <<"x","P","o","s","t","M","a","n">>
    /\ last.had
    /\ last.prior.tokens >= TokenUnit
    /\ last.ip \in DOMAIN buckets
    /\ ~last.allowed

\* C5: requests are handled concurrently, yet each check refills and consumes
\* in one step: at every instant the requests admitted for a key took distinct
\* tokens, never more than the bucket held.
C5_NoAdmissionPastCapacity ==
    \A ip \in DOMAIN inst :
        /\ inst[ip].admitted * TokenUnit <= inst[ip].avail
        /\ buckets[ip].tokens = inst[ip].avail - inst[ip].admitted * TokenUnit

\* two requests of one client are in flight, admitted with the last tokens
C5_Witness ==
    /\ \A r \in Procs : reqs[r].pc = "awaiting" /\ reqs[r].ip = "127.0.0.1"
    /\ "127.0.0.1" \in DOMAIN inst
    /\ inst["127.0.0.1"].admitted = 10
    /\ buckets["127.0.0.1"].tokens = 0

-----------------------------------------------------------------------------
(* Properties of getCachedTeams and refreshCache *)

\* call c of getCachedTeams has returned or raised
GetDone(c) == calls[c].pc = "done" /\ calls[c].op = "getCachedTeams"

\* the age in milliseconds of the record call c read when it read it
SeenAge(c) == calls[c].seen.age

SevenDays == 7 * 24 * 60 * 60 * 1000

\* the static list a league category falls back to
StaticList(league) == IF league = "other" THEN <<>> ELSE NationalFallback

\* C6: with credential and cache store, a call that reads a record younger than
\* 7 days returns that record normalized, sends nothing upstream and writes
\* nothing.
C6_FreshCacheHit ==
    \A c \in Callers :
        (GetDone(c) /\ env.apiKey /\ env.kv /\ calls[c].seen.present /\ SeenAge(c) < SevenDays) =>
            /\ calls[c].result.kind = "teams"
            /\ calls[c].result.teams = normalizeTeams(calls[c].seen.teams, calls[c].league)
            /\ calls[c].attempts = 0
            /\ calls[c].requests = 0
            /\ calls[c].writes = 0

\* a record of two pages written at T is read at T + 1 hour: the national teams
\* come back sorted by name, the missing code derived from the name
C6_Witness ==
    \E c \in Callers :
        /\ GetDone(c) /\ env.apiKey /\ env.kv
        /\ calls[c].seen.present
        /\ SeenAge(c) = OneHour
        /\ calls[c].league = "international"
        /\ calls[c].requests = 0
        /\ calls[c].result.teams =
              << [id |-> <<"2">>, name |-> <<"A","u","s","t","r","a","l","i","a">>,
                  abbrev |-> <<"A","U","S">>, logo |-> "au.png"],
                 [id |-> <<"1">>, name |-> <<"I","n","d","i","a">>,
                  abbrev |-> <<"I","N","D">>, logo |-> "in.png"] >>

\* C7: a call that reads a record of 7 days or older and whose upstream fetch
\* fails, the cache store answering its reads, returns cached teams, normalized,
\* not the static list: the teams of the record its catch block reads, which is
\* the stale record unless a concurrent call replaced it meanwhile; it made
\* exactly one upstream attempt.
C7_StaleOnFailure ==
    \A c \in Callers :
        (GetDone(c) /\ env.apiKey /\ env.kv /\ calls[c].seen.present
            /\ SeenAge(c) >= SevenDays /\ calls[c].failed /\ ~calls[c].storeError) =>
            /\ calls[c].result.kind = "teams"
            /\ calls[c].reread.present
            /\ calls[c].result.teams = normalizeTeams(calls[c].reread.teams, calls[c].league)
            /\ (calls[c].reread.teams = calls[c].seen.teams =>
                    calls[c].result.teams = normalizeTeams(calls[c].seen.teams, calls[c].league))
            /\ calls[c].attempts = 1
            /\ calls[c].writes = 0

\* a record exactly 7 days old, a failed fetch: the franchise team of the stale
\* record comes back where the static list for that league is empty
C7_Witness ==
    \E c \in Callers :
        /\ GetDone(c) /\ env.apiKey /\ env.kv
        /\ calls[c].seen.present
        /\ SeenAge(c) = SevenDays
        /\ calls[c].failed /\ ~calls[c].storeError
        /\ calls[c].reread.teams = calls[c].seen.teams
        /\ calls[c].league = "other"
        /\ calls[c].attempts = 1
        /\ calls[c].result.teams =
              << [id |-> <<"3">>, name |-> <<"M","u","m","b","a","i">>,
                  abbrev |-> <<"M","I">>, logo |-> "mi.png"] >>

\* C8: with credential and cache store, a call whose upstream fetch fails and
\* whose catch block finds no record returns the static list of its league.
C8_FallbackWithoutCache ==
    \A c \in Callers :
        (GetDone(c) /\ env.apiKey /\ env.kv /\ calls[c].failed /\ ~calls[c].reread.present) =>
            /\ calls[c].result.kind = "teams"
            /\ calls[c].result.teams = StaticList(calls[c].league)

\* no record was ever written, the fetch failed, the twelve national teams came back
C8_Witness ==
    \E c \in Callers :
        /\ GetDone(c) /\ env.apiKey /\ env.kv
        /\ calls[c].failed
        /\ ~store.present
        /\ calls[c].league = "international"
        /\ Len(calls[c].result.teams) = 12
        /\ calls[c].result.teams[1].name = <<"I","n","d","i","a">>

\* C9: without a credential no call sends a request or touches the cache store;
\* getCachedTeams returns the static list of its league and refreshCache
\* reports failure.
C9_NoCredentialNoNetwork ==
    ~env.apiKey =>
        /\ store \in InitialRecords
        /\ \A c \in Callers :
              /\ calls[c].op # "getCacheStatus" =>
                    /\ calls[c].pc \in {"idle", "done"}
                    /\ calls[c].reads = 0
              /\ calls[c].requests = 0
              /\ calls[c].writes = 0
              /\ GetDone(c) =>
                    /\ calls[c].result.kind = "teams"
                    /\ calls[c].result.teams = StaticList(calls[c].league)
              /\ (calls[c].pc = "done" /\ calls[c].op = "refreshCache") =>
                    /\ calls[c].result.kind = "report"
                    /\ ~calls[c].result.success
                    /\ calls[c].result.count = 0

\* no credential but a cache store: both operations have returned
C9_Witness ==
    /\ ~env.apiKey /\ env.kv
    /\ \E c \in Callers : GetDone(c) /\ calls[c].league = "international"
                             /\ Len(calls[c].result.teams) = 12
    /\ \E c \in Callers : calls[c].pc = "done" /\ calls[c].op = "refreshCache"

\* C10: an upstream failure during getCachedTeams is never fatal: in every
\* configuration the call returns teams and does not raise.
C10_NeverRaises ==
    \A c \in Callers :
        GetDone(c) => calls[c].result.kind = "teams"

-----------------------------------------------------------------------------
(* Properties of GET /api/scoreboard *)

\* the request went to the per-league fetches and main has returned
LeaguesDone == sb.pc = "done" /\ sb.leagues # <<>>

\* the results of the leagues whose fetch succeeded, one after the other in
\* the order of the configuration
RECURSIVE SucceededFrom(_)
SucceededFrom(i) ==
    IF i > Len(sb.leagues) THEN <<>>
    ELSE (IF sb.results[i].rejected THEN <<>> ELSE EspnFeed(sb.leagues[i].slug))
            \o SucceededFrom(i + 1)

\* C11: without a league parameter every configured league of the sport is
\* fetched; whichever of the fetches fail, the request is answered 200 and the
\* merged list is the concatenation of the results of the leagues that
\* succeeded: a failed league contributes nothing.
C11_FailedLeagueIsEmpty ==
    (LeaguesDone /\ sb.leagueSlug = "") =>
        /\ sb.code = 200
        /\ sb.leagues = getSportBySlug(sb.sportSlug).leagues
        /\ sb.merged = SucceededFrom(1)

\* of three leagues the first failed: the merged list is that of the other two
C11_Witness ==
    /\ LeaguesDone /\ sb.leagueSlug = ""
    /\ Len(sb.leagues) = 3
    /\ sb.results[1].rejected /\ ~sb.results[2].rejected /\ ~sb.results[3].rejected
    /\ sb.code = 200
    /\ sb.merged = <<IndiaAustralia, CowboysGiants>>

\* the list that league i contributed to the request
Contribution(i) == sb.results[i].value

\* C12: whatever the order in which the league fetches settle, the merged list
\* holds the contribution of the first configured league, then that of the
\* second, and so on.
C12_MergeInConfiguredOrder ==
    LeaguesDone =>
        /\ Len(sb.order) = Len(sb.leagues)
        /\ \/ Len(sb.leagues) = 1 /\ sb.merged = Contribution(1)
           \/ Len(sb.leagues) = 2 /\ sb.merged = Contribution(1) \o Contribution(2)
           \/ Len(sb.leagues) = 3
                /\ sb.merged = Contribution(1) \o Contribution(2) \o Contribution(3)

\* the second league settled before the first, both with matches
C12_Witness ==
    /\ LeaguesDone
    /\ sb.order = <<2, 1>>
    /\ sb.merged = <<CowboysGiants, LakersCeltics, MumbaiChennai, IndiaAustralia>>

-----------------------------------------------------------------------------
(* Properties of the logo cache *)

\* C13: however many getTeamLogo calls arrive before the cache is ready, at
\* most one build is in flight and one pair of directory fetches is ever sent;
\* a call that arrives while the build is in progress awaits that build and
\* sends nothing.
C13_OneBuildInFlight ==
    /\ logo.inFlight <= 1
    /\ logo.builds <= 1
    /\ logo.requests = 2 * logo.builds
    /\ (logo.inFlight = 1) = (logo.cacheInitPromise = "pending")
    /\ \A c \in LogoCallers :
          /\ logo.callers[c].waited => ~logo.callers[c].started
          /\ logo.callers[c].pc = "await" => logo.cacheInitPromise # "null"
    /\ Cardinality({c \in LogoCallers : logo.callers[c].started}) <= 1

\* three calls are waiting for the one build in progress; two of them arrived
\* after it had started
C13_Witness ==
    /\ logo.cacheInitPromise = "pending"
    /\ \A c \in LogoCallers : logo.callers[c].pc = "await"
    /\ Cardinality({c \in LogoCallers : logo.callers[c].waited}) = 2
    /\ logo.builds = 1
    /\ logo.requests = 2

-----------------------------------------------------------------------------
(* Properties of the helpers of types.ts *)

\* the pieces of s between its commas, trimmed, the empty ones left out
FilterTokens(s) ==
    { Trim(SubSeq(s, i, j)) :
        <<i, j>> \in { p \in (1..(Len(s) + 1)) \X (0..Len(s)) :
                          /\ p[1] <= p[2] + 1
                          /\ (p[1] = 1 \/ s[p[1] - 1] = ",")
                          /\ (p[2] = Len(s) \/ s[p[2] + 1] = ",")
                          /\ \A k \in p[1]..p[2] : s[k] # "," } } \ {<<>>}

\* a letter, a digit or the underscore at place k of text; no character lies
\* outside the text
WordCharAt(text, k) ==
    /\ k \in 1..Len(text)
    /\ \/ ToLowerChar(text[k]) \in {LowerAlpha[i] : i \in 1..26}
       \/ text[k] \in {"0","1","2","3","4","5","6","7","8","9","_"}

\* token occurs in text, letters compared without regard to case, between two
\* word boundaries
OccursAsWord(token, text) ==
    \E i \in 0..(Len(text) - Len(token)) :
        /\ \A j \in 1..Len(token) : ToLowerChar(text[i + j]) = ToLowerChar(token[j])
        /\ WordCharAt(text, i) # WordCharAt(text, i + 1)
        /\ WordCharAt(text, i + Len(token)) # WordCharAt(text, i + Len(token) + 1)

\* some token of the filter occurs as a whole word in a name or abbreviation of m
NamedIn(m, teamSearch) ==
    \E token \in FilterTokens(teamSearch) :
        \E text \in {m.home.name, m.home.abbrev, m.away.name, m.away.abbrev} :
            OccursAsWord(token, text)

InResult(m) == \E i \in 1..Len(fn.result) : fn.result[i] = m

\* C14: filterByTeam keeps, in their order, exactly the matches in which some
\* comma-separated, trimmed, non-empty token of the filter occurs
\* case-insensitively as a whole word in the home or away name or abbreviation;
\* "india" does not keep Mumbai Indians, "dallas" keeps Dallas Cowboys; a filter
\* without such a token returns the matches unchanged.
C14_WholeWordTeamFilter ==
    fn.op = "filterByTeam" =>
        /\ FilterTokens(fn.teamSearch) = {} => fn.result = fn.matches
        /\ FilterTokens(fn.teamSearch) # {} =>
              fn.result = SelectSeq(fn.matches, LAMBDA m : NamedIn(m, fn.teamSearch))
        /\ fn.teamSearch = <<"i","n","d","i","a">> => ~InResult(MumbaiChennai)
        /\ (fn.teamSearch = <<"d","a","l","l","a","s">>
                /\ \E i \in 1..Len(fn.matches) : fn.matches[i] = CowboysGiants)
              => InResult(CowboysGiants)

\* "india" on Mumbai Indians and India: only the second is kept
C14_Witness ==
    /\ fn.op = "filterByTeam"
    /\ fn.teamSearch = <<"i","n","d","i","a">>
    /\ fn.matches = <<MumbaiChennai, IndiaAustralia>>
    /\ fn.result = <<IndiaAustralia>>

\* C15: filterByStatus with 'all' returns the matches unchanged; with upcoming,
\* ongoing or done it returns exactly the matches of that status, in their
\* original order.
C15_StatusFilter ==
    fn.op = "filterByStatus" =>
        /\ fn.status = "all" => fn.result = fn.matches
        /\ fn.status \in {"upcoming", "ongoing", "done"} =>
              fn.result = SelectSeq(fn.matches, LAMBDA m : m.status = fn.status)

\* of a done and an ongoing match, 'ongoing' keeps the second only
C15_Witness ==
    /\ fn.op = "filterByStatus"
    /\ fn.status = "ongoing"
    /\ fn.matches = <<CowboysGiants, LakersCeltics>>
    /\ fn.result = <<LakersCeltics>>

DoneWords == { <<"f","i","n","a","l">>, <<"e","n","d">>, <<"f","t">>, <<"p","o","s","t">> }

OngoingWords ==
    { <<"p","r","o","g","r","e","s","s">>, <<"l","i","v","e">>,
      <<"h","a","l","f","t","i","m","e">>, <<"i","n"," ">> }

\* C17: mapEspnStatus answers for every text, without regard to case: done when
\* the text contains final, end, ft or post; else ongoing when it contains
\* progress, live, halftime or "in "; else upcoming.  STATUS_FINAL, Final and
\* post are done, 'in progress' and live ongoing, scheduled and pre upcoming.
C17_StatusClassifier ==
    fn.op = "mapEspnStatus" =>
        /\ fn.result \in {"upcoming", "ongoing", "done"}
        /\ fn.result = "done"
              <=> \E w \in DoneWords : ContainsIgnoreCase(fn.espnStatus, w)
        /\ fn.result = "ongoing"
              <=> /\ ~\E w \in DoneWords : ContainsIgnoreCase(fn.espnStatus, w)
                  /\ \E w \in OngoingWords : ContainsIgnoreCase(fn.espnStatus, w)
        /\ fn.espnStatus \in { <<"S","T","A","T","U","S","_","F","I","N","A","L">>,
                               <<"F","i","n","a","l">>, <<"p","o","s","t">> }
              => fn.result = "done"
        /\ fn.espnStatus \in { <<"i","n"," ","p","r","o","g","r","e","s","s">>,
                               <<"l","i","v","e">> }
              => fn.result = "ongoing"
        /\ fn.espnStatus \in { <<"s","c","h","e","d","u","l","e","d">>, <<"p","r","e">> }
              => fn.result = "upcoming"

\* a text in capitals with a done word and an ongoing word is done
C17_Witness ==
    /\ fn.op = "mapEspnStatus"
    /\ fn.espnStatus = <<"P","o","s","t","p","o","n","e","d",","," ","w","a","s"," ","l","i","v","e">>
    /\ fn.result = "done"

-----------------------------------------------------------------------------
(* Properties of the filter and sort steps of GET /api/scoreboard *)

\* the request was answered with a match list
Answered == sb.pc = "done" /\ sb.code = 200

\* the matches of a list that have a given status, in the order of the list
OfStatus(matches, status) == SelectSeq(matches, LAMBDA m : m.status = status)

\* C16: the final list holds the matches of the filtered list, the ongoing
\* ones first, then the upcoming, then the done, each group in the order it had
\* after the merge and the filters.
C16_StableStatusSort ==
    Answered =>
        /\ Len(sb.matches) = Len(sb.filtered)
        /\ sb.matches = OfStatus(sb.filtered, "ongoing") \o OfStatus(sb.filtered, "upcoming")
                            \o OfStatus(sb.filtered, "done")
        /\ \A i \in 1..(Len(sb.matches) - 1) :
              StatusOrder(sb.matches[i].status) <= StatusOrder(sb.matches[i + 1].status)

\* [done, ongoing, upcoming, ongoing] became [ongoing, ongoing, upcoming, done],
\* the two ongoing matches in their original order
C16_Witness ==
    /\ Answered
    /\ sb.filtered = <<CowboysGiants, LakersCeltics, MumbaiChennai, IndiaAustralia>>
    /\ sb.matches = <<LakersCeltics, IndiaAustralia, MumbaiChennai, CowboysGiants>>

\* the request was served from the feed (cricbuzz.getScoreboard)
FeedBased == sb.leagues = <<>>

\* C18: with a team filter, a request served from the feed whose filter keeps
\* nothing of a non-empty list continues with the first unfiltered match alone;
\* in every other case, and always for the per-league sources, the request
\* continues with the filtered list, empty or not.
C18_CricketFallback ==
    (Answered /\ sb.team # <<>>) =>
        LET kept == filterByTeam(sb.merged, sb.team)
        IN  IF FeedBased /\ kept = <<>> /\ sb.merged # <<>>
            THEN sb.afterTeam = <<sb.merged[1]>>
            ELSE sb.afterTeam = kept

\* a cricket request whose filter names no team of the feed kept the first match
C18_Witness ==
    /\ Answered /\ FeedBased
    /\ sb.team = <<" ","D","a","l","l","a","s",",","l","a","l">>
    /\ sb.merged = <<MumbaiChennai, IndiaAustralia>>
    /\ sb.afterTeam = <<MumbaiChennai>>

-----------------------------------------------------------------------------
(* Properties of refreshCache and getCacheStatus *)

\* call c is a refreshCache call with credential and cache store configured
Refreshing(c) == calls[c].op = "refreshCache" /\ env.apiKey /\ env.kv

\* C19: with credential and cache store, refreshCache starts the upstream fetch
\* whatever the cache holds, without reading it; when the fetch and the write
\* succeed the record is replaced by the fetched teams and the report is
\* success with their number; when the fetch fails the report is failure with
\* count 0 and an error, and the call has not changed the record.
C19_RefreshUnconditional ==
    [][ \A c \in Callers :
          /\ (calls[c].pc = "idle" /\ calls'[c].op = "refreshCache" /\ env.apiKey /\ env.kv) =>
                /\ calls'[c].pc = "fetch"
                /\ calls'[c].attempts = 1
                /\ calls'[c].reads = 0
          /\ (Refreshing(c) /\ calls[c].pc # "done" /\ calls'[c].pc = "done") =>
                /\ calls'[c].result.kind = "report"
                /\ calls'[c].reads = 0
                /\ calls'[c].result.success =>
                      /\ calls[c].pc = "put"
                      /\ store' = [present |-> TRUE, teams |-> calls[c].allTeams,
                                   cachedAt |-> calls[c].cacheData.cachedAt]
                      /\ calls'[c].result.count = Len(calls[c].allTeams)
                /\ calls[c].pc = "fetch" =>
                      /\ ~calls'[c].result.success
                      /\ calls'[c].result.count = 0
                      /\ calls'[c].result.error # "none"
                      /\ calls'[c].writes = 0
                      /\ store' = store
      ]_vars

\* at one instant a call read the fresh record of two teams and a refresh
\* replaced it by the three teams of two pages
C19_Witness ==
    /\ ticks = 0
    /\ \E c \in Callers :
          /\ GetDone(c)
          /\ calls[c].result.source = "cache"
          /\ Len(calls[c].seen.teams) = 2
    /\ \E c \in Callers :
          /\ Refreshing(c) /\ calls[c].pc = "done"
          /\ calls[c].result.success
          /\ calls[c].result.count = 3
    /\ Len(store.teams) = 3

\* C20: no step of a getCacheStatus call changes the cache record, sends a
\* request upstream or prepares a write; the call reports whether a record was
\* read, its number of teams and its age in minutes, and isStale is true
\* exactly when no record was read or the record is 7 days old or older.
C20_StatusReadOnly ==
    [][ \A c \in Callers :
          (calls'[c].op = "getCacheStatus" /\ calls'[c] # calls[c]) =>
              /\ store' = store
              /\ calls'[c].requests = 0
              /\ calls'[c].attempts = 0
              /\ calls'[c].writes = 0
              /\ calls'[c].pc = "done" =>
                    LET r == calls'[c].result
                        read == calls'[c].seen
                    IN  /\ r.kind = "status"
                        /\ r.exists = read.present
                        /\ r.teamCount = Len(read.teams)
                        /\ read.present => r.ageMinutes = read.age \div 60000
                        /\ r.isStale = (~read.present \/ read.age >= SevenDays)
      ]_vars

\* a record exactly 7 days old is reported as stale, with its two teams
C20_Witness ==
    \E c \in Callers :
        /\ calls[c].op = "getCacheStatus" /\ calls[c].pc = "done"
        /\ calls[c].seen.present
        /\ calls[c].seen.age = SevenDays
        /\ calls[c].result.exists
        /\ calls[c].result.teamCount = 2
        /\ calls[c].result.ageMinutes = 10080
        /\ calls[c].result.isStale
        /\ store.present

-----------------------------------------------------------------------------
(* Properties of the decisions, the configuration and the sweep of RateLimiter *)

\* the reason a decision carries: the property  reason  of the returned object,
\* "none" when the object has no such property
ReasonOf(ua, allowed) ==
    IF ua.isNull \/ \A i \in 1..Len(ua.text) : ua.text[i] \in WhiteSpace
    THEN "Missing User-Agent header"
    ELSE IF \E sig \in blockedAgents : ContainsIgnoreCase(ua.text, sig)
    THEN "Automated client blocked"
    ELSE IF allowed THEN "none"
    ELSE "Rate limit exceeded"

Unconfigured == hist.given = [limit |-> 0, burst |-> 0, interval |-> 0]

\* the statement that a limiter constructed without explicit configuration
\* uses limit=60, burst=10, interval=60 seconds
C22_DefaultIsSixtyTen ==
    Unconfigured => config = [limit |-> 60, burst |-> 10, interval |-> 60]

\* C22: a limiter constructed without explicit configuration uses limit=10,
\* burst=5, interval=60 seconds, whatever is called on it later; limit=60,
\* burst=10, interval=60 seconds is the configuration of the process-wide
\* instance  rateLimiter , which is given it explicitly.
C22_ConstructorDefaults ==
    /\ Unconfigured => config = [limit |-> 10, burst |-> 5, interval |-> 60]
    /\ rateLimiter = [limit |-> 60, burst |-> 10, interval |-> 60]

\* an unconfigured limiter allowed five checks of a new key and rejected the sixth
C22_Witness ==
    /\ Unconfigured
    /\ \E ip \in DOMAIN inst :
          /\ inst[ip].fresh
          /\ inst[ip].admitted = 5
          /\ BucketCall(ip)
          /\ ~last.allowed

\* the checks allowed for a key at the instants i..j of its log
RECURSIVE AllowedIn(_, _, _)
AllowedIn(log, i, j) ==
    IF i > j THEN 0 ELSE log[i].n + AllowedIn(log, i + 1, j)

\* C23: for every key and every window of time, the number of checks allowed
\* within the window is at most burst + T * limit / interval, T the length of
\* the window in seconds (both sides are taken times 1000 * interval).
C23_WindowBound ==
    \A ip \in DOMAIN admitted :
        \A i \in 1..Len(admitted[ip]) : \A j \in i..Len(admitted[ip]) :
            AllowedIn(admitted[ip], i, j) * 1000 * config.interval
                <= config.burst * 1000 * config.interval
                   + (admitted[ip][j].at - admitted[ip][i].at) * config.limit

-----------------------------------------------------------------------------
(* Properties of the fetch steps and the parsers of the cricket providers *)

\* the fetch step has returned to its caller or raised
FetchDone == fetchStep.pc = "done"

\* C24: a fetch step (getMatches, fetchTeamsFromCricbuzz) whose upstream
\* request failed, by a transport error or a non-success status, returns the
\* empty list; no fetch step ever raises to its caller.
C24_FetchFailureIsEmpty ==
    FetchDone =>
        /\ ~fetchStep.raised
        /\ fetchStep.failure \in {"transport", "status"} => fetchStep.value = <<>>

\* getMatches returned after the feed answered with a non-success status
C24_Witness ==
    /\ FetchDone
    /\ fetchStep.op = "getMatches"
    /\ fetchStep.failure = "status"
    /\ fetchStep.value = <<>>

\* the classification getMatches asks for: live is ongoing, upcoming is
\* upcoming, recent is done
Classification ==
    CASE fetchStep.matchStatus = "live"     -> "ongoing"
      [] fetchStep.matchStatus = "upcoming" -> "upcoming"
      [] fetchStep.matchStatus = "recent"   -> "done"

\* the matches getMatches parsed from a feed it received
Parsed ==
    IF FetchDone /\ fetchStep.op = "getMatches" /\ fetchStep.failure = "none"
    THEN {fetchStep.value[i] : i \in 1..Len(fetchStep.value)}
    ELSE {}

\* C30: every match parsed from the feed has the status of the feed's
\* classification, except that a match classified ongoing with no score on
\* either side is upcoming; the status is one of upcoming, ongoing, done.
C30_ParsedStatus ==
    \A m \in Parsed :
        /\ m.status \in {"upcoming", "ongoing", "done"}
        /\ m.status = IF /\ Classification = "ongoing"
                         /\ m.home.score = <<>>
                         /\ m.away.score = <<>>
                      THEN "upcoming"
                      ELSE Classification

\* a live feed held a fixture without scores and a match with a score on one
\* side only: the first is upcoming, the second ongoing
C30_Witness ==
    /\ fetchStep.matchStatus = "live"
    /\ \E m \in Parsed : m.status = "upcoming" /\ m.home.score = <<>> /\ m.away.score = <<>>
    /\ \E m \in Parsed : m.status = "ongoing" /\ m.home.score = <<>> /\ m.away.score # <<>>

-----------------------------------------------------------------------------
(* Properties of the request boundary of main *)

\* C25: a failure raised while an admitted request is handled is caught by the
\* catch block of main and answered as an error response: a request on which
\* a failure surfaced ends with status 500 and the message of the failure, and
\* no request ends by an exception leaving main.
C25_FailuresAnswered ==
    /\ sb.pc # "raised"
    /\ sb.failed => /\ sb.pc = "done"
                    /\ sb.code = 500
                    /\ sb.error \in ProviderErrors

\* a /api/teams request whose provider call rejected has been answered
C25_Witness ==
    /\ sb.pc = "done"
    /\ sb.failed
    /\ sb.path = <<"/","a","p","i","/","t","e","a","m","s">>
    /\ sb.error = "fetch failed"

-----------------------------------------------------------------------------
(* Properties of the sweep of RateLimiter *)

\* a step seen from a bucket it finds: the bucket is gone after the step only
\* if the step is a check that swept and the bucket was refilled more than 5
\* minutes ago, and a check that swept leaves no such bucket behind, except
\* that the checked key has the bucket the same check created anew
SweepStep ==
    \A ip \in DOMAIN buckets :
        LET expired == now - buckets[ip].lastRefill > 300000
            swept   == last'.op = "check" /\ last'.swept
        IN  /\ ip \notin DOMAIN buckets' => swept /\ expired
            /\ swept /\ expired =>
                  \/ ip \notin DOMAIN buckets'
                  \/ /\ last'.ip = ip
                     /\ buckets'[ip] = Consume(NewBucket(now))

\* C26: a sweep at time now deletes exactly the buckets whose lastRefill is
\* more than 5 minutes before now; a bucket refilled within the last 5 minutes
\* is removed by no operation, and nothing but the sweep removes a bucket.
C26_SweepDeletesExactlyExpired == [][SweepStep]_vars

\* a check rejected for its User-Agent swept away the bucket of its own key,
\* refilled more than 5 minutes before
C26_Witness ==
    /\ last.op = "check"
    /\ last.swept
    /\ last.had
    /\ now - last.prior.lastRefill > 300000
    /\ last.ip \notin DOMAIN buckets

\* the instants at which lastCleanup was set: construction, then the sweeps
CleanupInstants == <<hist.constructed>> \o hist.sweeps

\* lastCleanup changes only in a check, to the time of that check, which is
\* more than 60 seconds after its old value
SweepInsideCheck ==
    /\ lastCleanup' # lastCleanup =>
          /\ last'.op = "check"
          /\ last'.swept
          /\ lastCleanup' = now
          /\ now - lastCleanup > 60000
    /\ hist'.sweeps # hist.sweeps => lastCleanup' # lastCleanup

\* C27: the sweep runs only inside check and at most once per 60 seconds:
\* construction and the first sweep, and any two consecutive sweeps, are more
\* than 60 seconds apart, and no step other than a check sweeps.
C27_SweepAtMostOncePerMinute ==
    /\ [](/\ \A i \in 1..(Len(CleanupInstants) - 1) :
                CleanupInstants[i + 1] - CleanupInstants[i] > 60000
          /\ lastCleanup = CleanupInstants[Len(CleanupInstants)])
    /\ [][SweepInsideCheck]_vars

\* two sweeps have run
C27_Witness ==
    /\ Len(hist.sweeps) = 2
    /\ last.op = "check"
    /\ last.swept

-----------------------------------------------------------------------------
(* Properties of the cache record of providers/sportsmonk.ts *)

\* the records of the first n pages, in the order of the pages
RECURSIVE PagesUpTo(_)
PagesUpTo(n) == IF n = 0 THEN <<>> ELSE PagesUpTo(n - 1) \o PageData(n)

\* the call may write: refreshCache, or getCachedTeams that read no record or
\* a stale one
MayWrite(call) ==
    \/ call.op = "refreshCache"
    \/ call.op = "getCachedTeams" /\ (~call.seen.present \/ ~IsFresh(call.seen.age))

\* a step seen from the store
\* - a record is assembled when the last page of a fetch has arrived, from all
\*   the pages and the time of that moment
\* - the store changes only to the record a call assembled after a fetch on
\*   which no page failed
\* - a step in which a fetch fails leaves the store as it is
\* - a record is never removed
RecordKept ==
    /\ \A c \in Callers :
          calls[c].pc # "put" /\ calls'[c].pc = "put" =>
              /\ MayWrite(calls'[c])
              /\ calls'[c].cacheData =
                    [present |-> TRUE, teams |-> PagesUpTo(calls'[c].requests),
                     cachedAt |-> now]
    /\ store' # store =>
          \E c \in Callers :
              /\ calls[c].pc = "put"
              /\ ~calls[c].failed
              /\ store' = calls[c].cacheData
    /\ \A c \in Callers : ~calls[c].failed /\ calls'[c].failed => store' = store
    /\ store.present => store'.present

\* C28: the cache record is written only after a full paginated fetch has
\* succeeded, by getCachedTeams on an absent or stale record or by
\* refreshCache, and holds all fetched pages with the time at which it was
\* assembled; a failed fetch leaves the store unchanged; nothing deletes the
\* record, and its cachedAt never decreases.
C28_RecordOnlyAdvances ==
    [][/\ RecordKept
       /\ store.present => store'.cachedAt >= store.cachedAt]_vars

-----------------------------------------------------------------------------
(* Properties of the logo index of providers/cricbuzz-teams.ts *)

\* a step from a state in which the index is ready: it stays ready, keeps its
\* contents, and no build starts and no directory fetch is sent
ReadyStays ==
    logo.cacheInitialized =>
        /\ logo'.cacheInitialized
        /\ logo'.teamLogoCache = logo.teamLogoCache
        /\ logo'.cacheInitPromise = logo.cacheInitPromise
        /\ logo'.builds = logo.builds
        /\ logo'.requests = logo.requests

\* C29: the logo index is built once in the life of the process: at most one
\* build ever starts, and once the index is marked ready it stays ready, its
\* contents never change and no later getTeamLogo call sends a fetch, also
\* when the one build found no teams.
C29_BuiltOnce ==
    /\ [](logo.builds <= 1 /\ logo.requests <= 2)
    /\ [][ReadyStays]_vars

\* the build found no teams and the index is ready and empty; a call that came
\* after that was answered from the empty index without a wait
C29_Witness ==
    /\ logo.cacheInitialized
    /\ logo.teamLogoCache = <<>>
    /\ logo.builds = 1
    /\ \E c \in LogoCallers :
          /\ logo.callers[c].pc = "done"
          /\ logo.callers[c].teamName # <<>>
          /\ ~logo.callers[c].started
          /\ ~logo.callers[c].waited
          /\ logo.callers[c].result = "undefined"

-----------------------------------------------------------------------------
(* Properties of the items parsed from the live-score feed *)

IsBatting == <<" ","i","s"," ","b","a","t","t","i","n","g">>

\* the entity-decoded titles of the items of the feed that was received
RawTitles ==
    {decodeHtmlEntities(fetchStep.body[i].title.text) : i \in 1..Len(fetchStep.body)}

\* C31: the statusDetail of a parsed match is "<abbrev> is batting" for the
\* side that carries the activity marker when exactly one side carries it, and
\* the entity-decoded title of its item when no side or both sides carry it.
C31_DetailOfFlaggedSide ==
    \A m \in Parsed :
        IF m.home.turn /\ ~m.away.turn THEN m.statusDetail = m.home.abbrev \o IsBatting
        ELSE IF m.away.turn /\ ~m.home.turn THEN m.statusDetail = m.away.abbrev \o IsBatting
        ELSE m.statusDetail \in RawTitles

\* the item has a title element with text
HasTitle(item) == item.title.present /\ item.title.text # <<>>

\* the item has a guid element with text, or an address  match/<digits>.html
\* from which an id can be derived
HasId(item) ==
    \/ item.guid.present /\ item.guid.text # <<>>
    \/ \E e \in {item.title, item.link, item.guid} :
          Includes(e.text, <<"m","a","t","c","h","/">>) /\ MatchHtml(e.text) # <<>>

\* the title has two sides around the separator " v "
HasTwoSides(item) == Includes(decodeHtmlEntities(item.title.text), <<" ","v"," ">>)

Remains(item) == HasTitle(item) /\ HasId(item) /\ HasTwoSides(item)

\* the side of a title before its first separator " v ", without its marker,
\* its score and the space around it: the name of the first team
FirstSide(item) == parseTeamString(Trim(SplitOn(decodeHtmlEntities(item.title.text),
                                                 <<" ","v"," ">>, <<>>)[1])).name

\* C32: getMatches drops an item exactly when it has no title, no guid and no
\* derivable id, or a title without two sides around " v "; the items that
\* remain give one match each, in the order of the feed, and a dropped item
\* does not end the parsing.
C32_OneMatchPerRemainingItem ==
    (FetchDone /\ fetchStep.op = "getMatches" /\ fetchStep.failure = "none") =>
        LET remaining == SelectSeq(fetchStep.body, Remains)
        IN  /\ Len(fetchStep.value) = Len(remaining)
            /\ \A k \in 1..Len(remaining) :
                  /\ fetchStep.value[k].home.name = FirstSide(remaining[k])
                  /\ fetchStep.value[k].time =
                        IF remaining[k].pubDate # "" THEN ToISOString(remaining[k].pubDate)
                        ELSE "undefined"

\* an item without sides came first in the feed and was dropped; the item
\* after it was parsed
C32_Witness ==
    /\ FetchDone /\ fetchStep.op = "getMatches" /\ fetchStep.failure = "none"
    /\ Len(fetchStep.body) = 2
    /\ ~Remains(fetchStep.body[1])
    /\ HasTitle(fetchStep.body[1]) /\ HasId(fetchStep.body[1])
    /\ Len(fetchStep.value) = 1
    /\ fetchStep.value[1].home.name = <<"A","u","s","t","r","a","l","i","a">>

-----------------------------------------------------------------------------
(* Properties of the teams parsed from a directory page *)

\* fetchTeamsFromCricbuzz received a page and returned the teams parsed from it
PageParsed ==
    FetchDone /\ fetchStep.op = "fetchTeamsFromCricbuzz" /\ fetchStep.failure = "none"

\* the anchor is not discarded for its name
Named(anchor) == NameOf(anchor) # <<>> /\ NameOf(anchor) \notin skipLabels

\* the places of the anchors of the page that carry the id and a name that is
\* not discarded
NamedAt(id) ==
    {i \in 1..Len(fetchStep.body) : fetchStep.body[i].id = id /\ Named(fetchStep.body[i])}

\* C33: the teams parsed from a page hold no empty name and no navigation
\* label, hold each id once, namely from the first anchor with that id that is
\* not discarded for its name, and are sorted by name.
C33_TeamsDistinctAndSorted ==
    PageParsed =>
        LET teams == fetchStep.value
        IN  /\ \A k \in 1..Len(teams) :
                  /\ teams[k].name # <<>>
                  /\ teams[k].name \notin skipLabels
                  /\ NamedAt(teams[k].id) # {}
                  /\ LET first == CHOOSE i \in NamedAt(teams[k].id) :
                                      \A j \in NamedAt(teams[k].id) : i <= j
                     IN  /\ teams[k].name = NameOf(fetchStep.body[first])
                         /\ teams[k].slug = fetchStep.body[first].slug
            /\ \A k, l \in 1..Len(teams) : teams[k].id = teams[l].id => k = l
            /\ \A i \in 1..Len(fetchStep.body) :
                  Named(fetchStep.body[i]) =>
                      \E k \in 1..Len(teams) : teams[k].id = fetchStep.body[i].id
            /\ \A k \in 1..(Len(teams) - 1) :
                  localeCompare(teams[k].name, teams[k + 1].name) <= 0

\* a navigation label with the id of a team came first and was discarded; the
\* team after it, with the same id, was accepted
C33_Witness ==
    /\ PageParsed
    /\ Len(fetchStep.body) = 2
    /\ NameOf(fetchStep.body[1]) \in skipLabels
    /\ fetchStep.body[2].id = fetchStep.body[1].id
    /\ Len(fetchStep.value) = 1
    /\ fetchStep.value[1].id = fetchStep.body[1].id

-----------------------------------------------------------------------------
(* Properties of the abbreviations of the two parsers *)

\* the abbreviation of a team name: the entry of the lookup table for a name
\* found in it, else the first three letters of a name of one word, else the
\* first letters of the words, cut after four, in upper case
Abbreviation(name) ==
    LET known    == {i \in 1..Len(abbrevMap) : abbrevMap[i].name = name}
        words    == Words(Trim(name))
        initials == [i \in 1..Len(words) |-> words[i][1]]
    IN  IF known # {} THEN abbrevMap[CHOOSE i \in known : TRUE].abbrev
        ELSE IF Len(words) = 1 THEN ToUpperCase(SubSeq(words[1], 1, Min(3, Len(words[1]))))
        ELSE ToUpperCase(SubSeq(initials, 1, Min(4, Len(initials))))

\* the teams of the matches getMatches parsed
ParsedSides == {m.home : m \in Parsed} \cup {m.away : m \in Parsed}

\* the teams fetchTeamsFromCricbuzz parsed
ParsedTeams ==
    IF PageParsed THEN {fetchStep.value[k] : k \in 1..Len(fetchStep.value)} ELSE {}

\* C34: the abbreviation of a team, in the matches parsed from the feed and in
\* the teams parsed from a directory page alike, is the lookup-table entry of
\* a well-known name, else the first three letters of a one-word name, else
\* the initials of the words cut after four, in upper case.
C34_OneAbbreviation ==
    \A t \in ParsedSides \cup ParsedTeams :
        Trim(t.name) # <<>> => t.abbrev = Abbreviation(t.name)

-----------------------------------------------------------------------------
(* Properties of the rate limit check of main *)

\* C35: the decision of the rate limiter comes before the routes: a request
\* other than OPTIONS that check rejected is answered with status 429 and the
\* reason of the rejection and no upstream work is ever started for it; a
\* request for which upstream work was started, or that a route answered, was
\* allowed; only an OPTIONS request is answered without a decision.
C35_DecisionBeforeRoutes ==
    \A r \in Procs :
        /\ reqs[r].decision = "rejected" =>
              /\ reqs[r].pc = "idle"
              /\ reqs[r].code = 429
              /\ reqs[r].error \in {"Missing User-Agent header", "Automated client blocked",
                                    "Rate limit exceeded"}
              /\ reqs[r].fetches = 0
        /\ (reqs[r].pc = "awaiting" \/ reqs[r].fetches > 0) => reqs[r].decision = "allowed"
        /\ reqs[r].code = 429 => reqs[r].decision = "rejected"
        /\ (reqs[r].code = 200 /\ reqs[r].decision = "none") => reqs[r].method = "OPTIONS"

\* a request was rejected for the rate limit while another request of the same
\* client, admitted before, is waiting for its upstream
C35_Witness ==
    \E r, q \in Procs :
        /\ reqs[r].decision = "rejected"
        /\ reqs[r].code = 429
        /\ reqs[r].error = "Rate limit exceeded"
        /\ reqs[q].pc = "awaiting"
        /\ last.op = "check" /\ ~last.allowed

-----------------------------------------------------------------------------
(* Properties of the limiter beside a limiter that never sweeps *)

\* the latest check found a bucket that the sweep of this very check deleted
SweptAway ==
    /\ last.op = "check"
    /\ last.swept
    /\ last.had
    /\ now - last.prior.lastRefill > 300000

\* C36: for the global limiter (60 per 60 s, burst 10) the sweep cannot be
\* observed: every check is decided, with the same reason, as the limiter
\* with the sweep disabled decides it on the same calls.
C36_SweepTransparent ==
    (config = rateLimiter /\ last.op = "check")
        => /\ shadow.unsweptAllowed = last.allowed
           /\ shadow.unsweptReason = last.reason

\* the global limiter allowed a check whose bucket the sweep had just deleted,
\* after the same key had been rejected for the rate limit
C36_Witness ==
    /\ config = rateLimiter
    /\ SweptAway
    /\ last.allowed
    /\ shadow.unswept[last.ip].lastRefill = now

-----------------------------------------------------------------------------
(* Properties of the limiter beside a limiter spared the rejected checks *)

\* the latest check passed the user agent rules and reached the bucket
ReachedBucket ==
    /\ last.op = "check"
    /\ last.reason \in {"none", "Rate limit exceeded"}

\* C37: checks rejected for the rate limit do not delay the refill: a check
\* has the decision and leaves the token count that it has in the limiter
\* that was spared every check rejected for the rate limit.
C37_RejectedChecksDoNotDelay ==
    ReachedBucket
        => /\ shadow.sparedAllowed = last.allowed
           /\ shadow.sparedTokens = buckets[last.ip].tokens

-----------------------------------------------------------------------------
(* Properties of the buckets a check leaves alone *)

\* the bucket of ip is after the step what it was before the step, or gone
KeptOrRemoved(ip) ==
    ip \in DOMAIN buckets' => ip \in DOMAIN buckets /\ buckets'[ip] = buckets[ip]

\* a step that is a check leaves alone the buckets of all keys if it is
\* rejected for its User-Agent, and of all keys but its own otherwise; what
\* it removes, its sweep removes
FrameStep ==
    last'.op = "check" =>
        LET rejected == last'.reason \in {"Missing User-Agent header", "Automated client blocked"}
            others   == IF rejected THEN DOMAIN buckets \cup DOMAIN buckets'
                        ELSE (DOMAIN buckets \cup DOMAIN buckets') \ {last'.ip}
        IN  \A ip \in others :
                /\ KeptOrRemoved(ip)
                /\ ip \notin DOMAIN buckets' => last'.swept

\* C38: a check rejected for its User-Agent creates no bucket and changes
\* tokens and lastRefill of no bucket; a check for one key changes tokens and
\* lastRefill of no other key's bucket; other buckets are only ever removed,
\* by the sweep.
C38_CheckLeavesOtherBuckets == [][FrameStep]_vars

\* a check rejected for its User-Agent came for a key without a bucket while
\* another key had one, and its sweep ran
C38_Witness ==
    /\ last.op = "check"
    /\ last.reason = "Automated client blocked"
    /\ last.swept
    /\ ~last.had
    /\ last.ip \notin DOMAIN buckets
    /\ \E ip \in DOMAIN buckets : buckets[ip].tokens < config.burst * TokenUnit

-----------------------------------------------------------------------------
(* Properties of the paginated fetch *)

Fetching(c) == calls[c].pc = "fetch"

\* the last page of the upstream of a fixed total: the first one when it
\* reports no pagination metadata
LastPage == IF upstream.total_pages = 0 THEN 1 ELSE upstream.total_pages

\* while a call fetches, it has requested the pages 1..page, each once, and
\* holds the records of the pages before page in the order of the pages
PagesInOrder ==
    \A c \in Callers :
        Fetching(c) =>
            /\ calls[c].page \in 1..LastPage
            /\ calls[c].requests = calls[c].page
            /\ calls[c].allTeams = PagesUpTo(calls[c].page - 1)

\* a step of a fetching call requests the next page, or ends the fetch with
\* the records of all pages after the last page, or ends it with an error
\* and without another request
PageStep ==
    \A c \in Callers :
        Fetching(c) /\ calls'[c] # calls[c] =>
            \/ /\ calls'[c].pc = "fetch"
               /\ calls'[c].page = calls[c].page + 1
               /\ calls'[c].requests = calls[c].requests + 1
            \/ /\ calls'[c].pc = "put"
               /\ calls[c].page = LastPage
               /\ calls'[c].requests = calls[c].requests
               /\ calls'[c].cacheData.teams = PagesUpTo(LastPage)
            \/ /\ calls'[c].pc = "done"
               /\ calls'[c].result.kind = "teams"
               /\ calls[c].page = LastPage
               /\ calls'[c].requests = calls[c].requests
               /\ calls'[c].result.teams = normalizeTeams(PagesUpTo(LastPage), calls[c].league)
            \/ /\ calls'[c].pc \in {"done", "staleGet"}
               /\ calls'[c].requests = calls[c].requests
               /\ \/ calls'[c].failed
                  \/ calls'[c].result.kind = "report" /\ ~calls'[c].result.success

\* C39: against an upstream that reports the requested page as current_page
\* and a fixed total_pages, or no pagination metadata, the paginated fetch
\* requests the pages 1..total_pages once each in increasing order, returns
\* their records in page order, stops with an error at the first page that
\* fails, and always ends.
C39_PaginatedFetch ==
    /\ []PagesInOrder
    /\ [][PageStep]_vars
    /\ \A c \in Callers : Fetching(c) ~> ~Fetching(c)

\* a call returned the records of both pages of an upstream of two pages
\* after two requests, and another call stopped at the failure of page 2
C39_Witness ==
    /\ upstream.total_pages = 2
    /\ \E c \in Callers :
          /\ calls[c].pc = "done"
          /\ calls[c].result.source = "direct"
          /\ calls[c].requests = 2
          /\ calls[c].result.teams = normalizeTeams(PagesUpTo(2), calls[c].league)
    /\ \E c \in Callers :
          /\ calls[c].pc = "done"
          /\ calls[c].result.kind = "raised"
          /\ calls[c].requests = 2

-----------------------------------------------------------------------------
(* Properties of the getTeamLogo calls that wait for the build *)

\* the step ends a call of c for a name with a lookup in the index
Reads(c) ==
    /\ logo'.callers[c] # logo.callers[c]
    /\ logo'.callers[c].pc = "done"
    /\ logo'.callers[c].teamName # <<>>

\* a lookup is made while no build is in flight, and in the index as it is
\* then; the lookup of a call that waited is made after the build has ended
ReadStep ==
    \A c \in LogoCallers :
        Reads(c) =>
            /\ logo.cacheInitPromise # "pending"
            /\ logo.inFlight = 0
            /\ logo'.teamLogoCache = logo.teamLogoCache
            /\ logo'.callers[c].result = Lookup(logo.teamLogoCache, logo'.callers[c].teamName)
            /\ logo.callers[c].pc = "await" =>
                  /\ logo.cacheInitPromise = "settled"
                  /\ logo.builds = 1
                  /\ \A d \in Directories : logo.fetched[d].settled

\* C40: no getTeamLogo call reads the logo index while a build is in flight;
\* a call that arrives before the index is ready makes its lookup only after
\* the build in flight has ended, and returns when the two directory fetches
\* have completed.
C40_LookupAfterBuild ==
    /\ [][ReadStep]_vars
    /\ \A c \in LogoCallers : (logo.callers[c].pc = "await") ~> (logo.callers[c].pc = "done")

\* a call that arrived while the build was in flight has returned a logo from
\* the index the build filled
C40_Witness ==
    /\ logo.cacheInitialized
    /\ logo.cacheInitPromise = "settled"
    /\ \E c \in LogoCallers :
          /\ logo.callers[c].pc = "done"
          /\ logo.callers[c].waited
          /\ logo.callers[c].result # "undefined"

====
